---- MODULE Spec2Model ----
(***************************************************************************)
(* Model of the Pintos file-system core of this repository: the write-back *)
(* buffer cache (src/src/filesys/cache.c) and the indexed inode layer      *)
(* (src/src/filesys/inode.c).                                              *)
(*                                                                         *)
(* A sector is a tuple of BLOCK_SECTOR_SIZE units.  The source's sizes     *)
(* (512-byte sectors, 64 cache lines, 10 direct and 125 indirect entries)  *)
(* are scaled down; the layout rules that relate them are kept.            *)
(***************************************************************************)
EXTENDS Integers, Sequences, FiniteSets, TLC

----------------------------------------------------------------------------
(* Sizes *)

\* Number of sectors of the block device the cache is exercised on.
NumSectors == 3

\* The capacities explored; the capacity of a run is cache_size.
CacheSizes == {1, 2}

\* inode.c:22  #define DIRECT_BLOCKS 10 (scaled)
DIRECT_BLOCKS == 2

\* cache.h:39  #define THIRTY_SECONDS TIMER_FREQ * 30, in timer ticks (scaled)
THIRTY_SECONDS == 2

\* struct inode_disk is exactly one sector: start, blocks[DIRECT_BLOCKS],
\* length, self, indirect, dbl_indirect, indirect_used, dbl_indirect_used,
\* magic (the unused[] padding is scaled to nothing).
BLOCK_SECTOR_SIZE == DIRECT_BLOCKS + 8

\* struct inode_indirect fills a sector: sector, parent, length and
\* blocks[INDIRECT_BLOCKS] (inode.c:23, 125 of 128 words; scaled)
INDIRECT_BLOCKS == BLOCK_SECTOR_SIZE - 3

\* inode.c:24 (125, as INDIRECT_BLOCKS)
DBL_INDIRECT_BLOCKS == BLOCK_SECTOR_SIZE - 3

\* inode.c:25  #define TOTAL_BLOCKS 15760 = 10 + 125 + 125 * 125
TOTAL_BLOCKS ==
  DIRECT_BLOCKS + INDIRECT_BLOCKS + DBL_INDIRECT_BLOCKS * INDIRECT_BLOCKS

\* inode.c:26  #define MAX_FILE_SIZE 8069120 = TOTAL_BLOCKS * 512
MAX_FILE_SIZE == TOTAL_BLOCKS * BLOCK_SECTOR_SIZE

\* inode.c:18
INODE_MAGIC == 1229866820

MIN(X, Y) == IF X < Y THEN X ELSE Y

Sectors == 0 .. (NumSectors - 1)

\* Values of one unit of a data sector.
Bytes == {0, 1}

\* A null struct cache_entry pointer, a null buffer, no sector
NULL == [sector |-> -1, data |-> <<>>, dirty |-> FALSE]

NoBuf == <<>>

NoSector == NULL.sector

SUCCESS == 0

READ == "READ"

WRITE == "WRITE"

----------------------------------------------------------------------------
(* State *)

VARIABLES
  device,            \* block device: sector -> contents
  lru,               \* struct list lru: cache entries, front (MRU) first
  buffer_cache,      \* struct hash buffer_cache: the keys (sectors) it holds
  entries_in_cache,  \* int entries_in_cache
  cache_size,        \* the capacity CACHE_SIZE of this run
  logical,           \* history: last bytes written per sector, else the device's
  ref,               \* history: the residency the LRU rule prescribes
  last,              \* history: the last completed cache operation
  open_inodes,       \* struct list open_inodes: in-memory inodes, front first
  free_map,          \* the free map: the sectors not allocated
  created,           \* the sectors inode_create has written an inode to
  halted,            \* the kernel has panicked
  ret,               \* history: the last completed inode operation
  files,             \* history: per inode sector, its openers and its sectors
  ticks,             \* devices/timer.c: timer ticks since boot
  time,              \* cache.h, int64_t time: ticks at init or at the last
                     \* flush the timer triggered
  heap,              \* number of sector buffers malloc'ed for cache entries
                     \* and not freed
  threads,           \* per thread: where it is in a cache operation
  calc               \* the last call of a function of inode.c on its own:
                     \* its name, its argument and what it returned

cache_vars == <<device, lru, buffer_cache, entries_in_cache>>

hist_vars == <<logical, ref, last>>

inode_vars == <<open_inodes, free_map, created, halted, ret, files>>

\* No function has been called on its own
NoCalc == [fn |-> "none", arg |-> 0, out |-> 0]

\* The timer, the heap and the threads, which the operations of a single
\* thread with no timer leave alone
ext_vars == <<ticks, time, heap, threads, calc>>

vars == <<device, lru, buffer_cache, entries_in_cache, cache_size,
          logical, ref, last, open_inodes, free_map, created, halted, ret,
          files, ticks, time, heap, threads, calc>>

\* cache.c:18  #define CACHE_SIZE 64 (scaled: fixed per run, in CacheSizes)
CACHE_SIZE == cache_size

----------------------------------------------------------------------------
(* Sequence helpers (lib/kernel/list.h operations on the lru list) *)

list_push_front(l, e) == <<e>> \o l

list_remove(l, i) == SubSeq(l, 1, i - 1) \o SubSeq(l, i + 1, Len(l))

list_pop_back_elem(l) == l[Len(l)]

list_pop_back_rest(l) == SubSeq(l, 1, Len(l) - 1)

Fill(b) == [i \in 1 .. BLOCK_SECTOR_SIZE |-> b]

\* memcpy (bounce + ofs, buffer, chunk_size), chunk_size = Len(src)
MemcpyInto(dst, ofs, src) ==
  [i \in 1 .. BLOCK_SECTOR_SIZE |->
     IF i > ofs /\ i <= ofs + Len(src) THEN src[i - ofs] ELSE dst[i]]

\* memcpy (buffer, bounce + ofs, chunk_size)
MemcpyFrom(bounce, ofs, n) == [i \in 1 .. n |-> bounce[ofs + i]]

----------------------------------------------------------------------------
(* The cache as a value: the four globals the cache functions work on *)

CacheState == [device |-> device, lru |-> lru, hash |-> buffer_cache,
               n |-> entries_in_cache]

\* Mutant: the lookup never finds the sector
cache_lookup_miss(c, sector) == 0

\* cache_lookup: hash_find by sector; the index of the found entry in lru
cache_lookup(c, sector) ==
  IF sector \in c.hash /\ \E i \in 1 .. Len(c.lru) : c.lru[i].sector = sector
    THEN CHOOSE i \in 1 .. Len(c.lru) :
           /\ c.lru[i].sector = sector
           /\ \A j \in 1 .. (i - 1) : c.lru[j].sector # sector
    ELSE 0

\* Mutant: the capacity test is off by one
cache_is_full_off(c) == c.n > CACHE_SIZE

cache_is_full(c) == c.n >= CACHE_SIZE

\* Mutant: a hit leaves the entry where it is in the list
update_lru_nomove(c, e, idx, insert) ==
  IF insert = FALSE
    THEN [lru |-> [c.lru EXCEPT ![idx] = e], full |-> NULL]
    ELSE IF c.n >= CACHE_SIZE
           THEN LET pushed == list_push_front(c.lru, e)
                IN [lru |-> list_pop_back_rest(pushed),
                    full |-> list_pop_back_elem(pushed)]
           ELSE [lru |-> list_push_front(c.lru, e), full |-> NULL]

\* update_lru: the new list and the element to evict (NULL if none).
\* idx is the position of e in the list when insert is false.
update_lru(c, e, idx, insert) ==
  IF insert = FALSE
    THEN [lru |-> list_push_front(list_remove(c.lru, idx), e), full |-> NULL]
    ELSE IF cache_is_full(c)
           THEN LET pushed == list_push_front(c.lru, e)
                IN [lru |-> list_pop_back_rest(pushed),
                    full |-> list_pop_back_elem(pushed)]
           ELSE [lru |-> list_push_front(c.lru, e), full |-> NULL]

\* Mutant: eviction drops the entry without writing it back
cache_evict_nowb(c, e) ==
  IF e = NULL
    THEN [c |-> c, io |-> <<>>]
    ELSE [c |-> [c EXCEPT !.hash = c.hash \ {e.sector}, !.n = c.n - 1],
          io |-> <<>>]

\* cache_evict: write back if dirty, hash_delete, entries_in_cache--.
\* The element has already been taken off the list by the caller.
cache_evict(c, e) ==
  IF e = NULL
    THEN [c |-> c, io |-> <<>>]
    ELSE [c |-> [device |-> IF e.dirty
                              THEN [c.device EXCEPT ![e.sector] = e.data]
                              ELSE c.device,
                 lru |-> c.lru,
                 hash |-> c.hash \ {e.sector},
                 n |-> c.n - 1],
          io |-> IF e.dirty THEN << <<"write", e.sector>> >> ELSE <<>>]

\* Mutant: the new entry goes on the list but not into the hash
cache_insert_nohash(c, sector, buffer, access, garbage) ==
  LET buf == IF access = WRITE
               THEN [sector |-> sector, data |-> buffer, dirty |-> TRUE]
               ELSE [sector |-> sector, data |-> c.device[sector],
                     dirty |-> garbage]
      io1 == IF access = WRITE THEN <<>> ELSE << <<"read", sector>> >>
      u   == update_lru(c, buf, 0, TRUE)
      c1  == [c EXCEPT !.lru = u.lru]
      ev  == cache_evict(c1, u.full)
      c2  == ev.c
  IN [c |-> [c2 EXCEPT !.n = c2.n + 1],
      buf |-> buf.data,
      io |-> io1 \o ev.io,
      hit |-> FALSE,
      evicted |-> u.full,
      rc |-> SUCCESS]

\* cache_insert.  garbage is the value the uninitialised dirty field of the
\* freshly malloc'ed entry holds when access is READ (never assigned there).
cache_insert(c, sector, buffer, access, garbage) ==
  LET buf == IF access = WRITE
               THEN [sector |-> sector, data |-> buffer, dirty |-> TRUE]
               ELSE [sector |-> sector, data |-> c.device[sector],
                     dirty |-> garbage]
      io1 == IF access = WRITE THEN <<>> ELSE << <<"read", sector>> >>
      u   == update_lru(c, buf, 0, TRUE)
      c1  == [c EXCEPT !.lru = u.lru]
      ev  == cache_evict(c1, u.full)
      c2  == ev.c
  IN [c |-> [c2 EXCEPT !.hash = c2.hash \cup {sector}, !.n = c2.n + 1],
      buf |-> buf.data,
      io |-> io1 \o ev.io,
      hit |-> FALSE,
      evicted |-> u.full,
      rc |-> SUCCESS]

\* Mutant: a hit returns the device's copy instead of the entry's data
cache_read_stale(c, sector, garbage) ==
  LET found == cache_lookup(c, sector)
  IN IF found # 0
       THEN LET e == c.lru[found]
                u == update_lru(c, e, found, FALSE)
            IN [c |-> [c EXCEPT !.lru = u.lru],
                buf |-> c.device[sector], io |-> <<>>, hit |-> TRUE,
                evicted |-> NULL, rc |-> SUCCESS]
       ELSE cache_insert(c, sector, NoBuf, READ, garbage)

\* cache_read
cache_read(c, sector, garbage) ==
  LET found == cache_lookup(c, sector)
  IN IF found # 0
       THEN LET e == c.lru[found]
                u == update_lru(c, e, found, FALSE)
            IN [c |-> [c EXCEPT !.lru = u.lru],
                buf |-> e.data, io |-> <<>>, hit |-> TRUE,
                evicted |-> NULL, rc |-> SUCCESS]
       ELSE cache_insert(c, sector, NoBuf, READ, garbage)

\* Mutant: a write hit also writes the device (write-through)
cache_write_through(c, sector, buffer) ==
  LET found == cache_lookup(c, sector)
  IN IF found # 0
       THEN LET e == [c.lru[found] EXCEPT !.dirty = TRUE, !.data = buffer]
                u == update_lru(c, e, found, FALSE)
            IN [c |-> [c EXCEPT !.lru = u.lru,
                                !.device = [c.device EXCEPT ![sector] = buffer]],
                buf |-> buffer, io |-> << <<"write", sector>> >>, hit |-> TRUE,
                evicted |-> NULL, rc |-> SUCCESS]
       ELSE cache_insert(c, sector, buffer, WRITE, FALSE)

\* cache_write
cache_write(c, sector, buffer) ==
  LET found == cache_lookup(c, sector)
  IN IF found # 0
       THEN LET e == [c.lru[found] EXCEPT !.dirty = TRUE, !.data = buffer]
                u == update_lru(c, e, found, FALSE)
            IN [c |-> [c EXCEPT !.lru = u.lru],
                buf |-> buffer, io |-> <<>>, hit |-> TRUE,
                evicted |-> NULL, rc |-> SUCCESS]
       ELSE cache_insert(c, sector, buffer, WRITE, FALSE)

\* block_cache_read (total_access is a statistic and is not modelled)
block_cache_read(c, sector, garbage) == cache_read(c, sector, garbage)

\* block_cache_write
block_cache_write(c, sector, buffer) == cache_write(c, sector, buffer)

\* block_cache_read_partial: full read into a bounce buffer, copy the chunk
block_cache_read_partial(c, sector, ofs, chunk_size, garbage) ==
  LET r == block_cache_read(c, sector, garbage)
  IN [r EXCEPT !.buf = MemcpyFrom(r.buf, ofs, chunk_size)]

\* Mutant: the sector is never read before the bytes are overlaid
block_cache_write_partial_nopre(c, sector, src, ofs, garbage) ==
  LET bounce == MemcpyInto(Fill(0), ofs, src)
      r2  == block_cache_write(c, sector, bounce)
  IN [c |-> r2.c, buf |-> bounce, io |-> r2.io, hit |-> r2.hit,
      evicted |-> r2.evicted, rc |-> SUCCESS]

\* block_cache_write_partial: pre-read unless the chunk covers the sector,
\* overlay the caller's bytes, write the whole sector through the cache
block_cache_write_partial(c, sector, src, ofs, garbage) ==
  LET chunk_size == Len(src)
      pre == ofs > 0 \/ chunk_size < (BLOCK_SECTOR_SIZE - ofs)
      r1  == IF pre
               THEN block_cache_read(c, sector, garbage)
               ELSE [c |-> c, buf |-> Fill(0), io |-> <<>>, hit |-> FALSE,
                     evicted |-> NULL, rc |-> SUCCESS]
      bounce == MemcpyInto(r1.buf, ofs, src)
      r2  == block_cache_write(r1.c, sector, bounce)
  IN [c |-> r2.c, buf |-> bounce, io |-> r1.io \o r2.io,
      hit |-> IF pre THEN r1.hit ELSE r2.hit,
      evicted |-> IF pre THEN r1.evicted ELSE r2.evicted,
      rc |-> r1.rc]

\* Mutant: the flush evicts the front entry only
flush_cache_once(c) ==
  IF c.lru = <<>>
    THEN [c |-> c, io |-> <<>>]
    ELSE cache_evict([c EXCEPT !.lru = Tail(c.lru)], Head(c.lru))

\* Mutant: the flush writes the dirty entries back and keeps every entry
flush_cache_keep(c) ==
  [c |-> [c EXCEPT !.device =
            [s \in DOMAIN c.device |->
               IF \E i \in 1 .. Len(c.lru) : c.lru[i].sector = s /\ c.lru[i].dirty
                 THEN c.lru[CHOOSE i \in 1 .. Len(c.lru) :
                              c.lru[i].sector = s /\ c.lru[i].dirty].data
                 ELSE c.device[s]]],
   io |-> [i \in 1 .. Len(SelectSeq(c.lru, LAMBDA e : e.dirty)) |->
             <<"write", SelectSeq(c.lru, LAMBDA e : e.dirty)[i].sector>>]]

\* flush_cache (cache.h: cache_flush): evict from the front until empty
RECURSIVE flush_cache(_)
flush_cache(c) ==
  IF c.lru = <<>>
    THEN [c |-> c, io |-> <<>>]
    ELSE LET e  == Head(c.lru)
             ev == cache_evict([c EXCEPT !.lru = Tail(c.lru)], e)
             r  == flush_cache(ev.c)
         IN [c |-> r.c, io |-> ev.io \o r.io]

\* timer_elapsed (then): timer_ticks () - then
timer_elapsed(now, then) == now - then

\* timer_update, "time = timer_ticks (); cache_flush ();" where r is what the
\* flush returned
timer_flushed(r, now) == [c |-> r.c, io |-> r.io, time |-> now]

\* timer_update (cache.h): flush if THIRTY_SECONDS have elapsed since `time`
timer_update(c, now, then) ==
  IF timer_elapsed(now, then) >= THIRTY_SECONDS
    THEN timer_flushed(flush_cache(c), now)
    ELSE [c |-> c, io |-> <<>>, time |-> then]

----------------------------------------------------------------------------
(* The inode layer (inode.c).  The on-disk records are views of a sector:   *)
(* unit k of the sector is word k - 1 of the struct.                        *)

\* struct inode_disk: index of each field in the sector
D_start == 1

D_blocks(i) == 2 + i

D_length == DIRECT_BLOCKS + 2

D_self == DIRECT_BLOCKS + 3

D_indirect == DIRECT_BLOCKS + 4

D_dbl_indirect == DIRECT_BLOCKS + 5

D_magic == DIRECT_BLOCKS + 8

\* struct inode_indirect / inode_dbl_indirect: sector, parent, length, then
\* blocks[] / indirect[]
I_blocks(i) == 4 + i

zeros == Fill(0)

\* bytes_to_sectors: DIV_ROUND_UP (size, BLOCK_SECTOR_SIZE)
bytes_to_sectors(size) == (size + BLOCK_SECTOR_SIZE - 1) \div BLOCK_SECTOR_SIZE

\* free_map_allocate (1, &sector): the lowest free sector, if any
free_map_allocate(fm) ==
  IF fm = {}
    THEN [ok |-> FALSE, sector |-> 0, fm |-> fm]
    ELSE LET s == CHOOSE x \in fm : \A y \in fm : x <= y
         IN [ok |-> TRUE, sector |-> s, fm |-> fm \ {s}]

\* The sectors of the device; a block_read or block_write of any other sector
\* number panics the kernel (devices/block.c check_sector).
OnDevice(w, sector) == sector \in DOMAIN w.c.device

\* block_cache_write / block_cache_read as called from inode.c, in a world
\* w = [c: the cache, fm: the free map, g: the garbage a malloc'ed dirty
\* field holds, smashed: memory outside an object was written, panic]
fs_write(w, sector, buffer) ==
  IF w.panic \/ ~OnDevice(w, sector)
    THEN [w EXCEPT !.panic = TRUE]
    ELSE [w EXCEPT !.c = block_cache_write(w.c, sector, buffer).c]

fs_write_partial(w, sector, src, ofs) ==
  IF w.panic \/ ~OnDevice(w, sector)
    THEN [w EXCEPT !.panic = TRUE]
    ELSE [w EXCEPT !.c = block_cache_write_partial(w.c, sector, src, ofs, w.g).c]

\* The world and the caller's buffer after a cache read that returned r
AfterRead(w, r) == [w |-> [w EXCEPT !.c = r.c], buf |-> r.buf]

fs_read(w, sector) ==
  IF w.panic \/ ~OnDevice(w, sector)
    THEN [w |-> [w EXCEPT !.panic = TRUE], buf |-> zeros]
    ELSE AfterRead(w, block_cache_read(w.c, sector, w.g))

fs_read_partial(w, sector, ofs, chunk_size) ==
  IF w.panic \/ ~OnDevice(w, sector)
    THEN [w |-> [w EXCEPT !.panic = TRUE], buf |-> <<>>]
    ELSE AfterRead(w, block_cache_read_partial(w.c, sector, ofs, chunk_size,
                                               w.g))

\* Mutant: the sectors of the trailing indirect block are not taken modulo
\* INDIRECT_BLOCKS
sector_allocation_nomod(sectors) ==
  LET direct   == MIN(sectors, DIRECT_BLOCKS)
      s1       == sectors - MIN(direct, sectors)
      indirect == MIN(s1, INDIRECT_BLOCKS)
      s2       == s1 - indirect
      dbl      == MIN(s2 \div INDIRECT_BLOCKS, DBL_INDIRECT_BLOCKS)
      s3       == s2 - dbl * INDIRECT_BLOCKS
      remain   == s3
      s4       == s3 - remain
  IN [ok |-> s4 = 0, direct |-> direct, indirect |-> indirect,
      dbl |-> dbl, remain |-> remain]

\* sector_allocation: how many entries of each kind `sectors` sectors need
sector_allocation(sectors) ==
  LET direct   == MIN(sectors, DIRECT_BLOCKS)
      s1       == sectors - MIN(direct, sectors)
      indirect == MIN(s1, INDIRECT_BLOCKS)
      s2       == s1 - indirect
      dbl      == MIN(s2 \div INDIRECT_BLOCKS, DBL_INDIRECT_BLOCKS)
      s3       == s2 - dbl * INDIRECT_BLOCKS
      remain   == s3 % INDIRECT_BLOCKS
      s4       == s3 - remain
  IN [ok |-> s4 = 0, direct |-> direct, indirect |-> indirect,
      dbl |-> dbl, remain |-> remain]

\* free_map_allocate (1, &ptr[i]) returned f.sector: the store into ptr[i],
\* where a is the object holding the array and k the index of ptr[i] in it.
\* A store past the end of a lands outside the object.
StoreSector(r, k, f) ==
  [w |-> [r.w EXCEPT !.fm = f.fm, !.smashed = @ \/ k > Len(r.a)],
   a |-> IF k <= Len(r.a) THEN [r.a EXCEPT ![k] = f.sector] ELSE r.a,
   i |-> r.i + 1]

\* block_cache_write (fs_device, sector, zeros) after the store
ZeroSector(r, sector) == [r EXCEPT !.w = fs_write(r.w, sector, zeros)]

\* block_cache_write (fs_device, sector, a): the object r.a goes to `sector`
WriteStruct(r, sector) == fs_write(r.w, sector, r.a)

\* The loop of alloc_direct_sectors / alloc_indirect_sectors: count times,
\* allocate a sector into ptr[i] and zero it through the cache; i advances
\* only on success.  r = [w, a, i], ptr0 is the index of ptr[0] in r.a.
RECURSIVE alloc_loop(_, _, _)
alloc_step(r, ptr0, count, f) ==
  IF f.ok
    THEN alloc_loop(ZeroSector(StoreSector(r, ptr0 + r.i, f), f.sector),
                    ptr0, count - 1)
    ELSE alloc_loop(r, ptr0, count - 1)

alloc_loop(r, ptr0, count) ==
  IF count = 0 THEN r ELSE alloc_step(r, ptr0, count, free_map_allocate(r.w.fm))

\* alloc_direct_sectors (ptr, index, sectors)
alloc_direct_sectors(w, a, ptr0, index, sectors) ==
  IF sectors = 0
    THEN [w |-> w, a |-> a, i |-> 0]
    ELSE alloc_loop([w |-> w, a |-> a, i |-> index], ptr0,
                    MIN(sectors, DIRECT_BLOCKS))

\* alloc_indirect_sectors (ptr, index, sectors)
alloc_indirect_sectors(w, a, ptr0, index, sectors) ==
  IF sectors = 0
    THEN [w |-> w, a |-> a, i |-> 0]
    ELSE alloc_loop([w |-> w, a |-> a, i |-> index], ptr0,
                    MIN(sectors, INDIRECT_BLOCKS))

\* The loop of alloc_double_indirect_sectors; count is the value tested by
\* while (count--), so the body sees count - 1.
RECURSIVE alloc_dbl_loop(_, _, _, _)
\* The body once ptr[i] holds f.sector: fill a fresh indirect block, write it
alloc_dbl_fill(r, sector, n) ==
  [r EXCEPT !.w = WriteStruct(alloc_indirect_sectors(r.w, zeros, I_blocks(0),
                                                     0, n),
                              sector)]

alloc_dbl_step(r, ptr0, count, remaining, f) ==
  IF ~f.ok
    THEN [r EXCEPT !.i = 0]
    ELSE alloc_dbl_loop(
           alloc_dbl_fill(StoreSector(r, ptr0 + r.i, f), f.sector,
                          IF count - 1 = 0 /\ remaining # 0
                            THEN remaining ELSE INDIRECT_BLOCKS),
           ptr0, count - 1, remaining)

alloc_dbl_loop(r, ptr0, count, remaining) ==
  IF count = 0
    THEN r
    ELSE alloc_dbl_step(r, ptr0, count, remaining, free_map_allocate(r.w.fm))

\* alloc_double_indirect_sectors (ptr, index, sectors, remaining)
alloc_double_indirect_sectors(w, a, ptr0, index, sectors, remaining) ==
  IF sectors = 0 /\ remaining = 0
    THEN [w |-> w, a |-> a, i |-> 0]
    ELSE alloc_dbl_loop([w |-> w, a |-> a, i |-> index], ptr0,
                        MIN(sectors, DBL_INDIRECT_BLOCKS)
                          + (IF remaining # 0 THEN 1 ELSE 0),
                        remaining)

\* inode_create, "if (indirect)": r = [w, a: disk_inode, success],
\* f = free_map_allocate (1, &disk_inode->indirect)
create_indirect(r, al, f) ==
  IF al.indirect = 0
    THEN r
    ELSE IF ~f.ok
      THEN [r EXCEPT !.success = FALSE]
      ELSE [r EXCEPT
              !.a = [@ EXCEPT ![D_indirect] = f.sector],
              !.w = WriteStruct(alloc_indirect_sectors(
                                  [r.w EXCEPT !.fm = f.fm], zeros,
                                  I_blocks(0), 0, al.indirect),
                                f.sector)]

\* inode_create, "if (dbl_indirect || remaining)":
\* f = free_map_allocate (1, &disk_inode->dbl_indirect)
create_dbl_indirect(r, al, f) ==
  IF al.dbl = 0 /\ al.remain = 0
    THEN r
    ELSE IF ~f.ok
      THEN [r EXCEPT !.success = FALSE]
      ELSE [r EXCEPT
              !.a = [@ EXCEPT ![D_dbl_indirect] = f.sector],
              !.w = WriteStruct(alloc_double_indirect_sectors(
                                  [r.w EXCEPT !.fm = f.fm], zeros,
                                  I_blocks(0), 0, al.dbl, al.remain),
                                f.sector)]

\* inode_create, "if (success)": the inode itself goes to `sector`
create_finish(r, sector) ==
  [w |-> IF r.success THEN WriteStruct(r, sector) ELSE r.w,
   success |-> r.success]

\* success = true, with the world and the disk_inode an allocation left
WithSuccess(r) == [w |-> r.w, a |-> r.a, success |-> TRUE]

\* inode_create, "if (direct)" on the fresh disk_inode
create_direct(w, sector, length, al) ==
  WithSuccess(alloc_direct_sectors(w, [zeros EXCEPT ![D_length] = length,
                                                    ![D_magic] = INODE_MAGIC,
                                                    ![D_self] = sector],
                                   D_blocks(0), 0, al.direct))

\* The free map is asked only on the branch that allocates
AllocIf(cond, fm) ==
  IF cond THEN free_map_allocate(fm) ELSE [ok |-> FALSE, sector |-> 0, fm |-> fm]

create_steps3(r, sector, al) ==
  create_finish(
    create_dbl_indirect(r, al,
                        AllocIf(al.dbl # 0 \/ al.remain # 0, r.w.fm)),
    sector)

create_steps2(r, sector, al) ==
  create_steps3(create_indirect(r, al, AllocIf(al.indirect # 0, r.w.fm)),
                sector, al)

create_steps(w, sector, length, al) ==
  IF ~al.ok
    THEN [w |-> w, success |-> FALSE]
    ELSE create_steps2(create_direct(w, sector, length, al), sector, al)

\* inode_create (sector, length)
inode_create(w, sector, length) ==
  create_steps(w, sector, length, sector_allocation(bytes_to_sectors(length)))

\* direct_block
direct_block(node, blk) == node.data[D_blocks(blk)]

\* The sector number at index k of the block the read r returned
SectorAt(r, k) == [w |-> r.w, sector |-> r.buf[k]]

\* indirect_block: reads the indirect block through the cache
indirect_block(w, node, blk) ==
  SectorAt(fs_read(w, node.data[D_indirect]), I_blocks(blk))

\* dbl_indirect_block, after the double indirect block was read as r
dbl_indirect_inner(r, indirect_blk, indirect_index) ==
  SectorAt(fs_read(r.w, r.buf[I_blocks(indirect_blk)]), I_blocks(indirect_index))

\* dbl_indirect_block
dbl_indirect_block(w, node, block) ==
  dbl_indirect_inner(fs_read(w, node.data[D_dbl_indirect]),
                     block \div DBL_INDIRECT_BLOCKS, block % INDIRECT_BLOCKS)

\* extend_file, "if (new_direct > old_direct)": x = [w, node]
\* node->data.blocks is the array alloc_direct_sectors stored into
extend_direct_done(node, al) ==
  [w |-> al.w, node |-> [node EXCEPT !.data = al.a]]

extend_direct(x, old, new) ==
  IF new.direct > old.direct
    THEN extend_direct_done(x.node,
                            alloc_direct_sectors(x.w, x.node.data, D_blocks(0),
                                                 old.direct + 1, new.direct))
    ELSE x

\* extend_file, "if (new_indirect > old_indirect)": rd is the indirect block
\* read into a fresh record, filled from old_direct + 1, written back
extend_indirect_fill(x, rd, old, new) ==
  [x EXCEPT !.w = WriteStruct(alloc_indirect_sectors(rd.w, rd.buf, I_blocks(0),
                                                     old.direct + 1,
                                                     new.indirect),
                              x.node.data[D_indirect])]

extend_indirect(x, old, new) ==
  IF new.indirect > old.indirect
    THEN extend_indirect_fill(x, fs_read(x.w, x.node.data[D_indirect]), old, new)
    ELSE x

\* extend_file, "if (new_dbl > old_dbl)"
extend_dbl_fill(x, rd, old, new) ==
  [x EXCEPT !.w = WriteStruct(alloc_double_indirect_sectors(
                                rd.w, rd.buf, I_blocks(0), old.dbl, new.dbl,
                                new.remain),
                              x.node.data[D_dbl_indirect])]

extend_dbl(x, old, new) ==
  IF new.dbl > old.dbl
    THEN extend_dbl_fill(x, fs_read(x.w, x.node.data[D_dbl_indirect]), old, new)
    ELSE x

\* cur_sectors of extend_file, from the length the inode had when opened
cur_sectors(node) ==
  IF (node.length \div BLOCK_SECTOR_SIZE) % BLOCK_SECTOR_SIZE # 0
    THEN node.length \div BLOCK_SECTOR_SIZE + 1
    ELSE node.length \div BLOCK_SECTOR_SIZE

extend_steps(w, node, old, new) ==
  extend_dbl(
    extend_indirect(
      extend_direct([w |-> w, node |-> node], old, new),
      old, new),
    old, new)

\* block_sector_t new_sector = 0 is what extend_file returns
NewSector(x) == [w |-> x.w, node |-> x.node, sector |-> 0]

\* extend_file (node, sectors): returns new_sector, which stays 0
extend_file(w, node, sectors) ==
  NewSector(extend_steps(w, node, sector_allocation(cur_sectors(node)),
                         sector_allocation(sectors)))

\* The block number a lookup returned, with the inode it was looked up in
Found(r, node) == [w |-> r.w, node |-> node, sector |-> r.sector]

\* get_inode_block (node, pos, read); ASSERT (pos < MAX_FILE_SIZE) panics
\* the kernel
get_inode_block(w, node, pos, read) ==
  LET blk == pos \div BLOCK_SECTOR_SIZE
  IN IF pos >= MAX_FILE_SIZE
       THEN [w |-> [w EXCEPT !.panic = TRUE], node |-> node, sector |-> NoSector]
     ELSE IF pos < node.data[D_length]
       THEN IF blk < DIRECT_BLOCKS
              THEN [w |-> w, node |-> node, sector |-> direct_block(node, blk)]
              ELSE IF blk < DIRECT_BLOCKS + INDIRECT_BLOCKS
                THEN Found(indirect_block(w, node, blk - DIRECT_BLOCKS), node)
                ELSE IF blk < TOTAL_BLOCKS
                  THEN Found(dbl_indirect_block(
                               w, node,
                               blk - (DIRECT_BLOCKS + INDIRECT_BLOCKS)),
                             node)
                  ELSE [w |-> w, node |-> node, sector |-> NoSector]
       ELSE IF read
              THEN [w |-> w, node |-> node, sector |-> NoSector]
              ELSE extend_file(w, node, blk)

\* inode_length
inode_length(node) == node.data[D_length]

\* Number of bytes to copy in this sector: the lesser of size, the bytes
\* left in the inode and the bytes left in the sector
ChunkSize(node, size, offset) ==
  MIN(size, MIN(inode_length(node) - offset,
                BLOCK_SECTOR_SIZE - (offset % BLOCK_SECTOR_SIZE)))

\* The loop of inode_read_at; out is the caller's buffer filled so far
RECURSIVE read_loop(_, _, _, _, _)
\* "Advance." after the cache read r of a chunk
read_advance(r, node, size, offset, out, chunk_size) ==
  read_loop(r.w, node, size - chunk_size, offset + chunk_size, out \o r.buf)

\* The body of the loop once get_inode_block returned gb
read_chunk(gb, size, offset, out, chunk_size) ==
  IF chunk_size <= 0
    THEN [w |-> gb.w, node |-> gb.node, n |-> Len(out), buf |-> out]
    ELSE read_advance(
           IF offset % BLOCK_SECTOR_SIZE = 0 /\ chunk_size = BLOCK_SECTOR_SIZE
             THEN fs_read(gb.w, gb.sector)
             ELSE fs_read_partial(gb.w, gb.sector, offset % BLOCK_SECTOR_SIZE,
                                  chunk_size),
           gb.node, size, offset, out, chunk_size)

read_loop(w, node, size, offset, out) ==
  IF size <= 0 \/ w.panic
    THEN [w |-> w, node |-> node, n |-> Len(out), buf |-> out]
    ELSE read_chunk(get_inode_block(w, node, offset, TRUE), size, offset, out,
                    ChunkSize(node, size, offset))

\* inode_read_at (inode, buffer, size, offset)
inode_read_at(w, node, size, offset) == read_loop(w, node, size, offset, <<>>)

\* The loop of inode_write_at
RECURSIVE write_loop(_, _, _, _, _, _)
\* The body of the loop once get_inode_block returned gb
write_chunk(gb, buffer, size, offset, bytes_written, chunk_size) ==
  IF chunk_size <= 0
    THEN [w |-> gb.w, node |-> gb.node, n |-> bytes_written]
    ELSE write_loop(
           IF offset % BLOCK_SECTOR_SIZE = 0 /\ chunk_size = BLOCK_SECTOR_SIZE
             THEN fs_write(gb.w, gb.sector,
                           SubSeq(buffer, bytes_written + 1,
                                  bytes_written + chunk_size))
             ELSE fs_write_partial(gb.w, gb.sector,
                                   SubSeq(buffer, bytes_written + 1,
                                          bytes_written + chunk_size),
                                   offset % BLOCK_SECTOR_SIZE),
           gb.node, buffer, size - chunk_size, offset + chunk_size,
           bytes_written + chunk_size)

\* chunk_size is computed after get_inode_block, from the inode it left
write_step(gb, buffer, size, offset, bytes_written) ==
  write_chunk(gb, buffer, size, offset, bytes_written,
              ChunkSize(gb.node, size, offset))

write_loop(w, node, buffer, size, offset, bytes_written) ==
  IF size <= 0 \/ w.panic
    THEN [w |-> w, node |-> node, n |-> bytes_written]
    ELSE write_step(get_inode_block(w, node, offset, FALSE), buffer, size,
                    offset, bytes_written)

\* Mutant: deny_write_cnt is not looked at
inode_write_at_nodeny(w, node, buffer, size, offset) ==
  write_loop(w, node, buffer, size, offset, 0)

\* inode_write_at (inode, buffer, size, offset)
inode_write_at(w, node, buffer, size, offset) ==
  IF node.deny_write_cnt # 0
    THEN [w |-> w, node |-> node, n |-> 0]
    ELSE write_loop(w, node, buffer, size, offset, 0)

\* inode_reopen: one more opener of the inode
inode_reopen(node) == [node EXCEPT !.open_cnt = @ + 1]

\* Index of the first inode of `sector` in the list, 0 if there is none
list_find(inodes, sector) ==
  IF \E i \in 1 .. Len(inodes) : inodes[i].sector = sector
    THEN CHOOSE i \in 1 .. Len(inodes) :
           /\ inodes[i].sector = sector
           /\ \A j \in 1 .. (i - 1) : inodes[j].sector # sector
    ELSE 0

\* inode_open, not yet open: a new inode at the front of the list, its data
\* read from the sector through the cache (r)
inode_open_new(r, inodes, sector) ==
  [w |-> r.w,
   inodes |-> list_push_front(inodes,
                [sector |-> sector, open_cnt |-> 1, deny_write_cnt |-> 0,
                 removed |-> FALSE, data |-> r.buf,
                 length |-> r.buf[D_length]])]

\* Mutant: the search of the list never finds the sector
inode_open_dup(w, inodes, sector) ==
  inode_open_new(fs_read(w, sector), inodes, sector)

\* inode_open (sector)
inode_open(w, inodes, sector) ==
  IF list_find(inodes, sector) # 0
    THEN [w |-> w,
          inodes |-> [inodes EXCEPT ![list_find(inodes, sector)] =
                                      inode_reopen(@)]]
    ELSE inode_open_new(fs_read(w, sector), inodes, sector)

\* free_map_release (sector, cnt)
free_map_release(fm, sector, cnt) ==
  fm \cup {s \in DOMAIN device : sector <= s /\ s < sector + cnt}

\* inode_close, last opener: the blocks released when the inode is removed
close_release(node, fm) ==
  IF node.removed
    THEN free_map_release(free_map_release(fm, node.sector, 1),
                          node.data[D_start],
                          bytes_to_sectors(node.data[D_length]))
    ELSE fm

\* Mutant: the last close leaves the inode in the list
inode_close_keep(inodes, i, fm) ==
  [inodes |-> [inodes EXCEPT ![i].open_cnt = @ - 1],
   fm |-> IF inodes[i].open_cnt - 1 = 0 THEN close_release(inodes[i], fm)
                                        ELSE fm]

\* Mutant: a removed inode's blocks are released by every close
inode_close_eager(inodes, i, fm) ==
  IF inodes[i].open_cnt - 1 = 0
    THEN [inodes |-> list_remove(inodes, i),
          fm |-> close_release(inodes[i], fm)]
    ELSE [inodes |-> [inodes EXCEPT ![i].open_cnt = @ - 1],
          fm |-> close_release(inodes[i], fm)]

\* inode_close (inode) of the i-th inode of the list
inode_close(inodes, i, fm) ==
  IF inodes[i].open_cnt - 1 = 0
    THEN [inodes |-> list_remove(inodes, i),
          fm |-> close_release(inodes[i], fm)]
    ELSE [inodes |-> [inodes EXCEPT ![i].open_cnt = @ - 1], fm |-> fm]

\* inode_remove (inode)
inode_remove(node) == [node EXCEPT !.removed = TRUE]

\* Mutant: the count goes up by two and is not checked
inode_deny_write_twice(node) ==
  [node |-> [node EXCEPT !.deny_write_cnt = @ + 2], panic |-> FALSE]

\* inode_deny_write: the count after the increment, and whether
\* ASSERT (inode->deny_write_cnt <= inode->open_cnt) holds
inode_deny_write(node) ==
  [node |-> [node EXCEPT !.deny_write_cnt = @ + 1],
   panic |-> ~(node.deny_write_cnt + 1 <= node.open_cnt)]

\* inode_allow_write: the two assertions, then the decrement
inode_allow_write(node) ==
  IF node.deny_write_cnt > 0 /\ node.deny_write_cnt <= node.open_cnt
    THEN [node |-> [node EXCEPT !.deny_write_cnt = @ - 1], panic |-> FALSE]
    ELSE [node |-> node, panic |-> TRUE]

----------------------------------------------------------------------------
(* History variables, computed from the operations' inputs alone *)

\* The residency the specification's LRU rule prescribes after an access
\* to sector s: s first; at capacity the least recently accessed is dropped.
\* dirty records whether the slot was written since it was loaded.
RefIndex(r, s) ==
  IF \E i \in 1 .. Len(r) : r[i].sector = s
    THEN CHOOSE i \in 1 .. Len(r) : r[i].sector = s
    ELSE 0

RefAccess(r, s, isWrite) ==
  LET i == RefIndex(r, s)
  IN IF i # 0
       THEN <<[sector |-> s, dirty |-> r[i].dirty \/ isWrite]>>
              \o list_remove(r, i)
       ELSE <<[sector |-> s, dirty |-> isWrite]>>
              \o (IF Len(r) >= cache_size THEN SubSeq(r, 1, Len(r) - 1) ELSE r)

Install(c) ==
  /\ device' = c.device
  /\ lru' = c.lru
  /\ buffer_cache' = c.hash
  /\ entries_in_cache' = c.n

\* What the last operation did: its kind and sector, whether the sector was
\* found, the sector evicted (with its dirty flag), the device I/O issued,
\* for a partial write the offset and the bytes it was given, for a flush
\* whether the operation before it was a flush too (again), and the value
\* returned.
RecordPartial(op, sector, r, buf, ofs, src) ==
  last' = [op |-> op, sector |-> sector, hit |-> r.hit, buf |-> buf,
           evicted |-> r.evicted.sector, evdirty |-> r.evicted.dirty,
           io |-> r.io, ofs |-> ofs, src |-> src, again |-> FALSE,
           rc |-> r.rc]

Record(op, sector, r, buf) == RecordPartial(op, sector, r, buf, 0, NoBuf)

----------------------------------------------------------------------------
(* Operations of the cache *)

\* (ofs, chunk_size) pairs of the partial operations
ReadChunks == {<<0, 1>>, <<1, BLOCK_SECTOR_SIZE - 1>>}

WriteChunks == {<<0, BLOCK_SECTOR_SIZE>>, <<0, 1>>,
                <<1, BLOCK_SECTOR_SIZE - 1>>}

\* The sectors the partial operations are exercised on
PartialSectors == {0}

\* The values the uninitialised dirty field may hold; it is only read on
\* the path that creates an entry.
Garbage(s) == IF s \in buffer_cache THEN {FALSE} ELSE BOOLEAN

BlockCacheRead(s, g) ==
  LET r == block_cache_read(CacheState, s, g)
  IN /\ Install(r.c)
     /\ Record("read", s, r, r.buf)
     /\ ref' = RefAccess(ref, s, FALSE)
     /\ UNCHANGED <<cache_size, logical>>
     /\ UNCHANGED <<inode_vars, ext_vars>>

BlockCacheWrite(s, buffer) ==
  LET r == block_cache_write(CacheState, s, buffer)
  IN /\ Install(r.c)
     /\ Record("write", s, r, NoBuf)
     /\ ref' = RefAccess(ref, s, TRUE)
     /\ logical' = [logical EXCEPT ![s] = buffer]
     /\ UNCHANGED cache_size
     /\ UNCHANGED <<inode_vars, ext_vars>>

BlockCacheReadPartial(s, ofs, n, g) ==
  LET r == block_cache_read_partial(CacheState, s, ofs, n, g)
  IN /\ Install(r.c)
     /\ Record("read_partial", s, r, r.buf)
     /\ ref' = RefAccess(ref, s, FALSE)
     /\ UNCHANGED <<cache_size, logical>>
     /\ UNCHANGED <<inode_vars, ext_vars>>

BlockCacheWritePartial(s, ofs, src, g) ==
  LET r == block_cache_write_partial(CacheState, s, src, ofs, g)
  IN /\ Install(r.c)
     /\ RecordPartial("write_partial", s, r, NoBuf, ofs, src)
     /\ ref' = RefAccess(ref, s, TRUE)
     /\ logical' = [logical EXCEPT ![s] =
                      [i \in 1 .. BLOCK_SECTOR_SIZE |->
                         IF i > ofs /\ i <= ofs + Len(src)
                           THEN src[i - ofs] ELSE logical[s][i]]]
     /\ UNCHANGED cache_size
     /\ UNCHANGED <<inode_vars, ext_vars>>

FlushCache ==
  LET r == flush_cache(CacheState)
  IN /\ Install(r.c)
     /\ last' = [op |-> "flush", sector |-> NoSector, hit |-> FALSE,
                 buf |-> NoBuf, evicted |-> NoSector, evdirty |-> FALSE,
                 io |-> r.io, ofs |-> 0, src |-> NoBuf,
                 again |-> last.op = "flush", rc |-> SUCCESS]
     /\ ref' = <<>>
     /\ UNCHANGED <<cache_size, logical>>
     /\ UNCHANGED <<inode_vars, ext_vars>>

\* No inode operation has completed
NoRet == [op |-> "none", sector |-> NoSector, offset |-> 0, size |-> 0,
          src |-> NoBuf, n |-> 0, buf |-> NoBuf, old_length |-> 0,
          new_length |-> 0, smashed |-> FALSE, k |-> 0, t |-> 0,
          denied |-> FALSE, final |-> FALSE, removed |-> FALSE,
          alloc |-> {}, released |-> {}, tree |-> {}]

\* Nothing is known of an inode sector: no opener, no sector allocated to it.
\* plain / denying: the openers that have not / have called inode_deny_write
\* and not yet inode_allow_write; leaked: closes made by a denying opener;
\* refused: a write was refused while writes were denied; size: the length
\* given to inode_create; written: an inode_write_at was made on it.
NoFile == [owned |-> {}, plain |-> 0, denying |-> 0, leaked |-> 0,
           refused |-> FALSE, size |-> 0, written |-> FALSE]

\* The device before the cache is used: sector s holds s % 2 in every unit
InitialDevice == [s \in Sectors |-> Fill(s % 2)]

\* buffer_cache_init: empty hash and list
Init ==
  /\ device = InitialDevice
  /\ lru = <<>>
  /\ buffer_cache = {}
  /\ entries_in_cache = 0
  /\ cache_size \in CacheSizes
  /\ logical = device
  /\ ref = <<>>
  /\ last = [op |-> "init", sector |-> NoSector, hit |-> FALSE,
             buf |-> NoBuf, evicted |-> NoSector, evdirty |-> FALSE, io |-> <<>>,
             ofs |-> 0, src |-> NoBuf, again |-> FALSE, rc |-> SUCCESS]
  /\ open_inodes = <<>>
  /\ free_map = {}
  /\ created = {}
  /\ halted = FALSE
  /\ ret = NoRet
  /\ files = <<>>
  /\ ticks = 0
  /\ time = 0
  /\ heap = 0
  /\ calc = NoCalc
  /\ threads = <<>>

Next ==
  \/ \E s \in Sectors : \E g \in Garbage(s) : BlockCacheRead(s, g)
  \/ \E s \in Sectors, b \in Bytes : BlockCacheWrite(s, Fill(b))
  \/ \E s \in PartialSectors, ch \in ReadChunks : \E g \in Garbage(s) :
        BlockCacheReadPartial(s, ch[1], ch[2], g)
  \/ \E s \in PartialSectors, ch \in WriteChunks, b \in Bytes :
      \E g \in Garbage(s) :
        BlockCacheWritePartial(s, ch[1], [i \in 1 .. ch[2] |-> b], g)
  \/ FlushCache

Spec == Init /\ [][Next]_vars

----------------------------------------------------------------------------
(* The cache of cache.h, whose accesses look at the timer first *)

\* Timer ticks followed per run
MaxTicks == 4

\* The timer interrupt: one more tick
Tick ==
  /\ ticks < MaxTicks
  /\ ticks' = ticks + 1
  /\ UNCHANGED <<cache_vars, cache_size, hist_vars, inode_vars, time, heap,
                 threads, calc>>

\* The I/O of an access: that of the flush the timer triggered, then its own
WithIo(u, r) == [r EXCEPT !.io = u.io \o r.io]

\* block_cache_read of cache.h: timer_update (), then cache_read
TimedRead(s, g) ==
  LET u == timer_update(CacheState, ticks, time)
      r == block_cache_read(u.c, s, g)
  IN /\ s \in u.c.hash => g = FALSE
     /\ Install(r.c)
     /\ time' = u.time
     /\ Record("read", s, WithIo(u, r), r.buf)
     /\ ref' = RefAccess(IF u.time = time THEN ref ELSE <<>>, s, FALSE)
     /\ UNCHANGED <<cache_size, logical, inode_vars, ticks, heap, threads, calc>>

\* block_cache_write of cache.h: timer_update (), then cache_write
TimedWrite(s, buffer) ==
  LET u == timer_update(CacheState, ticks, time)
      r == block_cache_write(u.c, s, buffer)
  IN /\ Install(r.c)
     /\ time' = u.time
     /\ Record("write", s, WithIo(u, r), NoBuf)
     /\ ref' = RefAccess(IF u.time = time THEN ref ELSE <<>>, s, TRUE)
     /\ logical' = [logical EXCEPT ![s] = buffer]
     /\ UNCHANGED <<cache_size, inode_vars, ticks, heap, threads, calc>>

NextTimer ==
  \/ Tick
  \/ \E s \in Sectors, g \in BOOLEAN : TimedRead(s, g)
  \/ \E s \in Sectors, b \in Bytes : TimedWrite(s, Fill(b))

\* The timer interrupt keeps coming; nothing obliges a thread to access the
\* cache
SpecTimer == Init /\ [][NextTimer]_vars /\ WF_vars(Tick)

----------------------------------------------------------------------------
(* The cache over a device whose reads may fail *)

\* block_cache_read (s) when the block_read of the miss fails.  block_read
\* returns nothing to cache_insert: either the kernel panics in the device
\* driver (panics), or block_read returns with the entry's buffer left as
\* malloc gave it (junk) and cache_insert goes on.
BlockCacheReadFail(s, g, junk, panics) ==
  LET r == block_cache_read([CacheState EXCEPT !.device[s] = junk], s, g)
  IN /\ s \notin buffer_cache
     /\ halted' = panics
     /\ IF panics
          THEN /\ last' = [last EXCEPT !.op = "read_fail", !.sector = s]
               /\ UNCHANGED <<cache_vars, ref>>
          ELSE /\ Install([r.c EXCEPT !.device[s] = device[s]])
               /\ Record("read_fail", s, r, r.buf)
               /\ ref' = RefAccess(ref, s, FALSE)
     /\ UNCHANGED <<cache_size, logical, open_inodes, free_map, created, ret,
                    files, ext_vars>>

NextFail ==
  \/ ~halted /\ \E s \in Sectors : \E g \in Garbage(s) : BlockCacheRead(s, g)
  \/ ~halted /\ \E s \in Sectors : BlockCacheWrite(s, Fill(1 - (s % 2)))
  \/ ~halted /\ FlushCache
  \/ ~halted /\ \E s \in Sectors, g \in BOOLEAN, panics \in BOOLEAN :
                  BlockCacheReadFail(s, g, Fill(1 - (s % 2)), panics)

SpecFail == Init /\ [][NextFail]_vars

----------------------------------------------------------------------------
(* The sector buffers of the entries.  heap counts the buffers obtained by
   buf->data = malloc (BLOCK_SECTOR_SIZE) and not yet given to free. *)

\* The actions stop allocating at this many live buffers
MaxBuffers == 4

\* cache_insert allocates one sector buffer; a hit allocates none
buffers_malloced(r) == IF r.hit THEN 0 ELSE 1

\* cache_evict: free (lru_entry->data) follows block_write, inside the
\* test of the dirty flag; one buffer is freed per sector written back
buffers_freed(io) == Len(SelectSeq(io, LAMBDA x : x[1] = "write"))

HeapRead(s, g) ==
  LET r == block_cache_read(CacheState, s, g)
  IN /\ heap < MaxBuffers
     /\ s \in buffer_cache => g = FALSE
     /\ Install(r.c)
     /\ Record("read", s, r, r.buf)
     /\ ref' = RefAccess(ref, s, FALSE)
     /\ heap' = heap + buffers_malloced(r) - buffers_freed(r.io)
     /\ UNCHANGED <<cache_size, logical, inode_vars, ticks, time, threads, calc>>

HeapWrite(s, buffer) ==
  LET r == block_cache_write(CacheState, s, buffer)
  IN /\ heap < MaxBuffers
     /\ Install(r.c)
     /\ Record("write", s, r, NoBuf)
     /\ ref' = RefAccess(ref, s, TRUE)
     /\ logical' = [logical EXCEPT ![s] = buffer]
     /\ heap' = heap + buffers_malloced(r) - buffers_freed(r.io)
     /\ UNCHANGED <<cache_size, inode_vars, ticks, time, threads, calc>>

HeapFlush ==
  LET r == flush_cache(CacheState)
  IN /\ Install(r.c)
     /\ last' = [op |-> "flush", sector |-> NoSector, hit |-> FALSE,
                 buf |-> NoBuf, evicted |-> NoSector, evdirty |-> FALSE,
                 io |-> r.io, ofs |-> 0, src |-> NoBuf,
                 again |-> last.op = "flush", rc |-> SUCCESS]
     /\ ref' = <<>>
     /\ heap' = heap - buffers_freed(r.io)
     /\ UNCHANGED <<cache_size, logical, inode_vars, ticks, time, threads, calc>>

NextHeap ==
  \/ \E s \in Sectors, g \in BOOLEAN : HeapRead(s, g)
  \/ \E s \in Sectors : HeapWrite(s, Fill(1 - (s % 2)))
  \/ HeapFlush

SpecHeap == Init /\ [][NextHeap]_vars

----------------------------------------------------------------------------
(* The functions of inode.c that compute without touching the device, each
   called on its own with every argument up to a bound *)

\* The largest sector count asked of sector_allocation
MaxSectorCount == 120

\* sector_allocation (sectors, &direct, &indirect, &dbl, &remain)
SectorAllocation(sectors) ==
  /\ calc' = [fn |-> "sector_allocation", arg |-> sectors,
              out |-> sector_allocation(sectors)]
  /\ UNCHANGED <<cache_vars, cache_size, hist_vars, inode_vars, ticks, time,
                 heap, threads>>

NextCalc ==
  \E sectors \in 0 .. MaxSectorCount : SectorAllocation(sectors)

SpecCalc == Init /\ [][NextCalc]_vars

----------------------------------------------------------------------------
(* Two threads in the cache.  A thread runs until it waits for the device: *)
(* in block_read of cache_insert and in block_write of cache_evict; there  *)
(* the other thread may run.  cache.c takes no lock.                       *)

Threads == {1, 2}

\* A thread that is in no cache operation
IdleThread == [pc |-> "idle", e |-> NULL, full |-> NULL]

\* cache_insert after update_lru returned `full` and cache_evict (full) is
\* done but for what follows its block_write: hash_delete, free,
\* entries_in_cache--, then hash_insert and entries_in_cache++
insert_finish(c, e, full) ==
  [cache_evict(c, full).c EXCEPT !.hash = @ \cup {e.sector}, !.n = @ + 1]

\* cache_insert from update_lru on, for the entry e of thread t: the thread
\* waits in block_write if the entry to evict is dirty
InsertTail(t, e, u) ==
  IF u.full # NULL /\ u.full.dirty
    THEN /\ lru' = u.lru
         /\ threads' = [threads EXCEPT ![t] = [pc |-> "block_write", e |-> e,
                                               full |-> u.full]]
         /\ UNCHANGED <<device, buffer_cache, entries_in_cache>>
    ELSE /\ Install(insert_finish([CacheState EXCEPT !.lru = u.lru], e, u.full))
         /\ threads' = [threads EXCEPT ![t] = IdleThread]

\* Thread t calls block_cache_read (buffer = NoBuf) or block_cache_write on
\* sector s.  A hit completes at once.  A sector that is in the hash while
\* its entry is off the list is being evicted by the other thread: the hit
\* path then works on an entry about to be freed, which is undefined.
ThreadAccess(t, s, access, buffer, g) ==
  /\ threads[t].pc = "idle"
  /\ \A o \in Threads : threads[o].pc # "undefined"
  /\ IF cache_lookup(CacheState, s) # 0
       THEN /\ g = FALSE
            /\ Install(IF access = READ
                         THEN cache_read(CacheState, s, g).c
                         ELSE cache_write(CacheState, s, buffer).c)
            /\ UNCHANGED threads
       ELSE IF s \in buffer_cache
         THEN /\ g = FALSE
              /\ threads' = [threads EXCEPT ![t].pc = "undefined"]
              /\ UNCHANGED cache_vars
         ELSE IF access = READ
           THEN /\ threads' = [threads EXCEPT ![t] =
                                 [pc |-> "block_read",
                                  e |-> [sector |-> s, data |-> NoBuf,
                                         dirty |-> g],
                                  full |-> NULL]]
                /\ UNCHANGED cache_vars
           ELSE /\ g = FALSE
                /\ InsertTail(t, [sector |-> s, data |-> buffer, dirty |-> TRUE],
                              update_lru(CacheState,
                                         [sector |-> s, data |-> buffer,
                                          dirty |-> TRUE], 0, TRUE))
  /\ UNCHANGED <<cache_size, hist_vars, inode_vars, ticks, time, heap, calc>>

\* block_read of thread t returns: the entry holds the sector, cache_insert
\* goes on
ThreadAfterRead(t) ==
  /\ threads[t].pc = "block_read"
  /\ \A o \in Threads : threads[o].pc # "undefined"
  /\ InsertTail(t, [threads[t].e EXCEPT !.data = device[threads[t].e.sector]],
                update_lru(CacheState,
                           [threads[t].e EXCEPT
                              !.data = device[threads[t].e.sector]], 0, TRUE))
  /\ UNCHANGED <<cache_size, hist_vars, inode_vars, ticks, time, heap, calc>>

\* block_write of thread t returns: cache_evict and cache_insert finish
ThreadAfterWrite(t) ==
  /\ threads[t].pc = "block_write"
  /\ \A o \in Threads : threads[o].pc # "undefined"
  /\ Install(insert_finish(CacheState, threads[t].e, threads[t].full))
  /\ threads' = [threads EXCEPT ![t] = IdleThread]
  /\ UNCHANGED <<cache_size, hist_vars, inode_vars, ticks, time, heap, calc>>

InitConc ==
  /\ device = InitialDevice
  /\ lru = <<>>
  /\ buffer_cache = {}
  /\ entries_in_cache = 0
  /\ cache_size \in CacheSizes
  /\ logical = device
  /\ ref = <<>>
  /\ last = [op |-> "init", sector |-> NoSector, hit |-> FALSE,
             buf |-> NoBuf, evicted |-> NoSector, evdirty |-> FALSE, io |-> <<>>,
             ofs |-> 0, src |-> NoBuf, again |-> FALSE, rc |-> SUCCESS]
  /\ open_inodes = <<>>
  /\ free_map = {}
  /\ created = {}
  /\ halted = FALSE
  /\ ret = NoRet
  /\ files = <<>>
  /\ ticks = 0
  /\ time = 0
  /\ heap = 0
  /\ calc = NoCalc
  /\ threads = [t \in Threads |-> IdleThread]

\* The sectors the two threads access, and what they write to them
ConcSectors == {0, 1}

NextConc ==
  \/ \E t \in Threads, s \in ConcSectors, g \in BOOLEAN :
        ThreadAccess(t, s, READ, NoBuf, g)
  \/ \E t \in Threads, s \in ConcSectors :
        ThreadAccess(t, s, WRITE, Fill(1 - (s % 2)), FALSE)
  \/ \E t \in Threads : ThreadAfterRead(t)
  \/ \E t \in Threads : ThreadAfterWrite(t)

SpecConc == InitConc /\ [][NextConc]_vars

----------------------------------------------------------------------------
(* Operations of the inode layer, over a file system device              *)

NumFsSectors == 12

MaxFiles == 2

MaxOpenCnt == 2

\* create, open, read_at and write_at calls per run
MaxInodeOps == 4

\* reopen, close, remove, deny_write and allow_write calls per run
MaxTableOps == 4

FsSectors == 0 .. (NumFsSectors - 1)

\* File lengths given to inode_create: empty, inside the first direct block,
\* filling the direct blocks but for a byte, and needing the indirect block
CreateLengths == {0, BLOCK_SECTOR_SIZE - 1, DIRECT_BLOCKS * BLOCK_SECTOR_SIZE - 1,
                  DIRECT_BLOCKS * BLOCK_SECTOR_SIZE + 1}

\* Offsets of inode_read_at / inode_write_at: in the first direct block, at
\* its last byte, in the first indirect block, in the double indirect range
Offsets == {0, BLOCK_SECTOR_SIZE - 1, DIRECT_BLOCKS * BLOCK_SECTOR_SIZE,
            (DIRECT_BLOCKS + 2 * INDIRECT_BLOCKS) * BLOCK_SECTOR_SIZE}

\* Offsets of inode_read_at: those, and the first offset no file reaches
ReadOffsets == Offsets \cup {MAX_FILE_SIZE}

Sizes == {1, BLOCK_SECTOR_SIZE + 1}

\* The world an inode operation starts in
World(g) == [c |-> CacheState, fm |-> free_map, g |-> g,
             smashed |-> FALSE, panic |-> FALSE]

\* Index in open_inodes of the inode of `sector`, 0 if it is not open
OpenIndex(sector) ==
  IF \E i \in 1 .. Len(open_inodes) : open_inodes[i].sector = sector
    THEN CHOOSE i \in 1 .. Len(open_inodes) : open_inodes[i].sector = sector
    ELSE 0

\* The caller's buffer of n bytes: b, the last byte differing
Buffer(n, b) == [k \in 1 .. n |-> IF k = n THEN 1 - b ELSE b]

\* The openers of the inode of sector s that have not closed
Openers(s) == files[s].plain + files[s].denying

\* The inode_deny_write calls on the inode of sector s not yet matched by an
\* inode_allow_write
Denies(s) == files[s].denying + files[s].leaked

\* The record of an operation `op` on the inode of `sector`; dk, dt count it
Done(op, sector, dk, dt) ==
  [NoRet EXCEPT !.op = op, !.sector = sector, !.k = ret.k + dk,
                !.t = ret.t + dt]

\* The caller allocates the inode's sector (and releases it on failure),
\* then inode_create (sector, length)
InodeCreate(length, g) ==
  LET f == free_map_allocate(free_map)
      r == inode_create([World(g) EXCEPT !.fm = f.fm], f.sector, length)
  IN /\ ~halted
     /\ ret.k < MaxInodeOps
     /\ Cardinality(created) < MaxFiles
     /\ f.ok
     /\ Install(r.w.c)
     /\ free_map' = IF r.success THEN r.w.fm ELSE r.w.fm \cup {f.sector}
     /\ created' = IF r.success THEN created \cup {f.sector} ELSE created
     /\ halted' = r.w.panic
     /\ ret' = [Done("create", f.sector, 1, 0) EXCEPT
                  !.size = length,
                  !.n = IF r.success THEN 1 ELSE 0,
                  !.alloc = f.fm \ r.w.fm,
                  !.smashed = r.w.smashed]
     /\ files' = IF r.success
                   THEN [files EXCEPT ![f.sector].owned = f.fm \ r.w.fm,
                                      ![f.sector].size = length]
                   ELSE files
     /\ UNCHANGED <<cache_size, hist_vars, ext_vars, open_inodes>>

\* inode_open (sector) of a sector that holds an inode
InodeOpen(sector, g) ==
  LET r == inode_open(World(g), open_inodes, sector)
  IN /\ ~halted
     /\ ret.k < MaxInodeOps
     /\ sector \in created
     /\ Openers(sector) < MaxOpenCnt
     /\ OpenIndex(sector) # 0 => g = FALSE
     /\ open_inodes' = r.inodes
     /\ Install(r.w.c)
     /\ halted' = r.w.panic
     /\ ret' = [Done("open", sector, 1, 0) EXCEPT
                  !.n = OpenIndex(sector)]
     /\ files' = [files EXCEPT ![sector].plain = @ + 1]
     /\ UNCHANGED <<cache_size, hist_vars, ext_vars, free_map, created>>

\* inode_reopen (inode) on the i-th open inode
InodeReopen(i) ==
  LET node == open_inodes[i]
  IN /\ ~halted
     /\ ret.t < MaxTableOps
     /\ Openers(node.sector) < MaxOpenCnt
     /\ open_inodes' = [open_inodes EXCEPT ![i] = inode_reopen(node)]
     /\ ret' = Done("reopen", node.sector, 0, 1)
     /\ files' = [files EXCEPT ![node.sector].plain = @ + 1]
     /\ UNCHANGED <<cache_vars, cache_size, hist_vars, ext_vars, free_map, created,
                    halted>>

\* inode_close (inode) on the i-th open inode, by an opener that has
\* (denying) or has not an inode_deny_write outstanding
InodeClose(i, denying) ==
  LET node == open_inodes[i]
      s == node.sector
      r == inode_close(open_inodes, i, free_map)
      last_opener == Openers(s) = 1
  IN /\ ~halted
     /\ ret.t < MaxTableOps
     /\ IF denying THEN files[s].denying > 0 ELSE files[s].plain > 0
     /\ open_inodes' = r.inodes
     /\ free_map' = r.fm
     /\ ret' = [Done("close", s, 0, 1) EXCEPT
                  !.final = Len(r.inodes) < Len(open_inodes),
                  !.removed = node.removed,
                  !.tree = files[s].owned,
                  !.released = r.fm \ free_map]
     /\ created' = IF last_opener /\ node.removed THEN created \ {s}
                                                  ELSE created
     /\ files' = [files EXCEPT ![s] =
                    IF last_opener
                      THEN IF node.removed
                             THEN NoFile
                             ELSE [files[s] EXCEPT !.plain = 0, !.denying = 0,
                                                   !.leaked = 0,
                                                   !.refused = FALSE]
                      ELSE IF denying
                        THEN [@ EXCEPT !.denying = @ - 1, !.leaked = @ + 1]
                        ELSE [@ EXCEPT !.plain = @ - 1]]
     /\ UNCHANGED <<cache_vars, cache_size, hist_vars, ext_vars, halted>>

\* inode_remove (inode) on the i-th open inode
InodeRemove(i) ==
  LET node == open_inodes[i]
  IN /\ ~halted
     /\ ret.t < MaxTableOps
     /\ open_inodes' = [open_inodes EXCEPT ![i] = inode_remove(node)]
     /\ ret' = Done("remove", node.sector, 0, 1)
     /\ UNCHANGED <<cache_vars, cache_size, hist_vars, ext_vars, free_map, created,
                    halted, files>>

\* inode_deny_write (inode) on the i-th open inode, by an opener that has
\* no inode_deny_write outstanding
InodeDenyWrite(i) ==
  LET node == open_inodes[i]
      r == inode_deny_write(node)
  IN /\ ~halted
     /\ ret.t < MaxTableOps
     /\ files[node.sector].plain > 0
     /\ open_inodes' = [open_inodes EXCEPT ![i] = r.node]
     /\ halted' = r.panic
     /\ ret' = Done("deny_write", node.sector, 0, 1)
     /\ files' = [files EXCEPT ![node.sector].plain = @ - 1,
                               ![node.sector].denying = @ + 1]
     /\ UNCHANGED <<cache_vars, cache_size, hist_vars, ext_vars, free_map, created>>

\* inode_allow_write (inode) on the i-th open inode, by an opener that has
\* an inode_deny_write outstanding
InodeAllowWrite(i) ==
  LET node == open_inodes[i]
      r == inode_allow_write(node)
  IN /\ ~halted
     /\ ret.t < MaxTableOps
     /\ files[node.sector].denying > 0
     /\ open_inodes' = [open_inodes EXCEPT ![i] = r.node]
     /\ halted' = r.panic
     /\ ret' = Done("allow_write", node.sector, 0, 1)
     /\ files' = [files EXCEPT ![node.sector].plain = @ + 1,
                               ![node.sector].denying = @ - 1]
     /\ UNCHANGED <<cache_vars, cache_size, hist_vars, ext_vars, free_map, created>>

\* inode_write_at (inode, buffer, size, offset) on the i-th open inode
InodeWriteAt(i, buffer, offset, g) ==
  LET node == open_inodes[i]
      size == Len(buffer)
      r == inode_write_at(World(g), node, buffer, size, offset)
  IN /\ ~halted
     /\ ret.k < MaxInodeOps
     /\ offset + size <= MAX_FILE_SIZE
     /\ Install(r.w.c)
     /\ free_map' = r.w.fm
     /\ open_inodes' = [open_inodes EXCEPT ![i] = r.node]
     /\ halted' = r.w.panic
     /\ ret' = [Done("write_at", node.sector, 1, 0) EXCEPT
                  !.offset = offset, !.size = size,
                  !.src = buffer, !.n = r.n,
                  !.old_length = inode_length(node),
                  !.new_length = inode_length(r.node),
                  !.denied = Denies(node.sector) > 0,
                  !.alloc = free_map \ r.w.fm,
                  !.smashed = r.w.smashed]
     /\ files' = [files EXCEPT
                    ![node.sector].owned = @ \cup (free_map \ r.w.fm),
                    ![node.sector].written = TRUE,
                    ![node.sector].refused = @ \/ Denies(node.sector) > 0]
     /\ UNCHANGED <<cache_size, hist_vars, ext_vars, created>>

\* inode_read_at (inode, buffer, size, offset) on the i-th open inode
InodeReadAt(i, size, offset, g) ==
  LET node == open_inodes[i]
      r == inode_read_at(World(g), node, size, offset)
  IN /\ ~halted
     /\ ret.k < MaxInodeOps
     /\ Install(r.w.c)
     /\ free_map' = r.w.fm
     /\ open_inodes' = [open_inodes EXCEPT ![i] = r.node]
     /\ halted' = r.w.panic
     /\ ret' = [Done("read_at", node.sector, 1, 0) EXCEPT
                  !.offset = offset, !.size = size,
                  !.n = r.n, !.buf = r.buf,
                  !.old_length = inode_length(node),
                  !.new_length = inode_length(r.node),
                  !.alloc = free_map \ r.w.fm]
     /\ UNCHANGED <<cache_size, hist_vars, ext_vars, created, files>>

\* The free map of a freshly formatted disk: sector 0 (free map) and sector
\* 1 (root directory) are taken
FreshMap == FsSectors \ {0, 1}

\* The free map of a disk that is full but for its last sector, or but for
\* its last three sectors
NearlyFull == {{NumFsSectors - 1},
               {NumFsSectors - 3, NumFsSectors - 2, NumFsSectors - 1}}

\* After filesys_init: the cache is empty, inode_init has emptied open_inodes.
InitInode ==
  /\ device = [s \in FsSectors |-> zeros]
  /\ lru = <<>>
  /\ buffer_cache = {}
  /\ entries_in_cache = 0
  /\ cache_size \in CacheSizes
  /\ logical = device
  /\ ref = <<>>
  /\ last = [op |-> "init", sector |-> NoSector, hit |-> FALSE,
             buf |-> NoBuf, evicted |-> NoSector, evdirty |-> FALSE, io |-> <<>>,
             ofs |-> 0, src |-> NoBuf, again |-> FALSE, rc |-> SUCCESS]
  /\ open_inodes = <<>>
  /\ free_map = FreshMap
  /\ created = {}
  /\ halted = FALSE
  /\ ret = NoRet
  /\ files = [s \in FsSectors |-> NoFile]
  /\ ticks = 0
  /\ time = 0
  /\ heap = 0
  /\ calc = NoCalc
  /\ threads = <<>>

NextInode ==
  \/ \E len \in CreateLengths, g \in BOOLEAN : InodeCreate(len, g)
  \/ \E s \in FsSectors, g \in BOOLEAN : InodeOpen(s, g)
  \/ \E i \in 1 .. Len(open_inodes), off \in Offsets, n \in Sizes,
        b \in Bytes, g \in BOOLEAN :
        InodeWriteAt(i, Buffer(n, b), off, g)
  \/ \E i \in 1 .. Len(open_inodes), off \in ReadOffsets, n \in Sizes,
        g \in BOOLEAN :
        InodeReadAt(i, n, off, g)

SpecInode == InitInode /\ [][NextInode]_vars

\* The same operations on a disk that is nearly full
InitFull ==
  /\ device = [s \in FsSectors |-> zeros]
  /\ lru = <<>>
  /\ buffer_cache = {}
  /\ entries_in_cache = 0
  /\ cache_size \in CacheSizes
  /\ logical = device
  /\ ref = <<>>
  /\ last = [op |-> "init", sector |-> NoSector, hit |-> FALSE,
             buf |-> NoBuf, evicted |-> NoSector, evdirty |-> FALSE, io |-> <<>>,
             ofs |-> 0, src |-> NoBuf, again |-> FALSE, rc |-> SUCCESS]
  /\ open_inodes = <<>>
  /\ free_map \in NearlyFull
  /\ created = {}
  /\ halted = FALSE
  /\ ret = NoRet
  /\ files = [s \in FsSectors |-> NoFile]
  /\ ticks = 0
  /\ time = 0
  /\ heap = 0
  /\ calc = NoCalc
  /\ threads = <<>>

SpecFull == InitFull /\ [][NextInode]_vars

\* The open-inode table: all of its operations, on an empty file and on one
\* that has an indirect block, with one-byte writes at offset 0
TableLengths == {0, DIRECT_BLOCKS * BLOCK_SECTOR_SIZE + 1}

NextTable ==
  \/ \E len \in TableLengths, g \in BOOLEAN : InodeCreate(len, g)
  \/ \E s \in FsSectors, g \in BOOLEAN : InodeOpen(s, g)
  \/ \E i \in 1 .. Len(open_inodes) : InodeReopen(i)
  \/ \E i \in 1 .. Len(open_inodes), d \in BOOLEAN : InodeClose(i, d)
  \/ \E i \in 1 .. Len(open_inodes) : InodeRemove(i)
  \/ \E i \in 1 .. Len(open_inodes) : InodeDenyWrite(i)
  \/ \E i \in 1 .. Len(open_inodes) : InodeAllowWrite(i)
  \/ \E i \in 1 .. Len(open_inodes), g \in BOOLEAN :
        InodeWriteAt(i, Buffer(1, 0), 0, g)

SpecTable == InitInode /\ [][NextTable]_vars

\* A device that holds a file of the maximum size: its data sectors, its
\* index blocks, and room to spare
BigSectors == 0 .. (TOTAL_BLOCKS + 3 * INDIRECT_BLOCKS + 5)

\* File lengths around MAX_FILE_SIZE
BigLengths ==
  {MAX_FILE_SIZE - BLOCK_SECTOR_SIZE, MAX_FILE_SIZE - 1, MAX_FILE_SIZE,
   MAX_FILE_SIZE + 1, MAX_FILE_SIZE + BLOCK_SECTOR_SIZE,
   MAX_FILE_SIZE + (INDIRECT_BLOCKS - 1) * BLOCK_SECTOR_SIZE,
   MAX_FILE_SIZE + (INDIRECT_BLOCKS - 1) * BLOCK_SECTOR_SIZE + 1,
   MAX_FILE_SIZE + INDIRECT_BLOCKS * BLOCK_SECTOR_SIZE}

InitBig ==
  /\ device = [s \in BigSectors |-> zeros]
  /\ lru = <<>>
  /\ buffer_cache = {}
  /\ entries_in_cache = 0
  /\ cache_size \in CacheSizes
  /\ logical = device
  /\ ref = <<>>
  /\ last = [op |-> "init", sector |-> NoSector, hit |-> FALSE,
             buf |-> NoBuf, evicted |-> NoSector, evdirty |-> FALSE, io |-> <<>>,
             ofs |-> 0, src |-> NoBuf, again |-> FALSE, rc |-> SUCCESS]
  /\ open_inodes = <<>>
  /\ free_map = BigSectors \ {0, 1}
  /\ created = {}
  /\ halted = FALSE
  /\ ret = NoRet
  /\ files = [s \in BigSectors |-> NoFile]
  /\ ticks = 0
  /\ time = 0
  /\ heap = 0
  /\ calc = NoCalc
  /\ threads = <<>>

NextBig ==
  \/ \E len \in BigLengths, g \in BOOLEAN : InodeCreate(len, g)
  \/ \E s \in BigSectors, g \in BOOLEAN : InodeOpen(s, g)

SpecBig == InitBig /\ [][NextBig]_vars

----------------------------------------------------------------------------
(* Properties of the buffer cache *)

Range(f) == {f[i] : i \in DOMAIN f}

IoReads(io) == {e[2] : e \in {x \in Range(io) : x[1] = "read"}}

IoWrites(io) == {e[2] : e \in {x \in Range(io) : x[1] = "write"}}

Resident == {lru[i].sector : i \in DOMAIN lru}

AccessOps == {"read", "write", "read_partial", "write_partial"}

\* C1 (read-after-write coherence): in every reachable state, evictions and
\* flushes included, a block_cache_read of any sector returns the bytes of
\* the most recent write to it, or the device's original contents if it was
\* never written; and the read that has just completed returned them.
C1_ReadAfterWrite ==
  /\ last.op = "read" => last.buf = logical[last.sector]
  /\ \A s \in Sectors : \A g \in BOOLEAN :
       block_cache_read(CacheState, s, g).buf = logical[s]

\* A read miss that returned written bytes: the sector was written, left the
\* cache, and this read, which itself forced an eviction, fetched it again.
C1_Witness ==
  /\ last.op = "read" /\ ~last.hit /\ last.evicted # NoSector
  /\ last.buf # InitialDevice[last.sector]

\* C2 (flush durability): when a flush completes the mapping and the recency
\* list are empty, the entry count is 0, the device holds the last-written
\* bytes of every sector, and a read issued next returns those bytes.
C2_FlushDurable ==
  last.op = "flush" =>
    /\ lru = <<>> /\ buffer_cache = {} /\ entries_in_cache = 0
    /\ \A s \in Sectors :
         /\ device[s] = logical[s]
         /\ \A g \in BOOLEAN :
              block_cache_read(CacheState, s, g).buf = logical[s]

\* A flush that wrote back two slots, one of them with bytes the device
\* did not hold before.
C2_Witness ==
  /\ last.op = "flush" /\ Len(last.io) = 2
  /\ \E s \in IoWrites(last.io) : device[s] # InitialDevice[s]

\* C5 (LRU correctness): after a hit or a miss on sector s, s is at the MRU
\* end of the recency list, and the resident sectors are, in order, the ones
\* the least-recently-accessed rule prescribes; so the sector evicted by a
\* miss at capacity is the resident one whose last access is the oldest.
C5_LruOrder ==
  /\ last.op \in AccessOps => (lru # <<>> /\ lru[1].sector = last.sector)
  /\ [i \in DOMAIN lru |-> lru[i].sector] = [i \in DOMAIN ref |-> ref[i].sector]
  /\ last.evicted # NoSector => last.evicted \notin Resident

\* With C = 2: a miss on sector 2 evicted sector 1 and kept sector 0, which
\* is now the least recently used.
C5_Witness ==
  /\ cache_size = 2 /\ last.op = "read" /\ ~last.hit /\ last.sector = 2
  /\ last.evicted = 1
  /\ Len(lru) = 2 /\ lru[1].sector = 2 /\ lru[2].sector = 0

\* C6 (bounded residency): after every completed cache operation the number
\* of resident slots (list, mapping and entry count) is at most CACHE_SIZE.
C6_BoundedResidency ==
  /\ Len(lru) <= CACHE_SIZE
  /\ Cardinality(buffer_cache) <= CACHE_SIZE
  /\ entries_in_cache <= CACHE_SIZE

\* A partial write that missed with the cache at capacity and evicted.
C6_Witness ==
  /\ last.op = "write_partial" /\ ~last.hit /\ last.evicted # NoSector
  /\ entries_in_cache = CACHE_SIZE /\ Len(lru) = CACHE_SIZE

\* C7 (cache-slot uniqueness): each sector is held by at most one slot.
C7_SlotUnique ==
  \A i, j \in DOMAIN lru : lru[i].sector = lru[j].sector => i = j

\* A write hit with two slots resident: the lookup found the existing slot.
C7_Witness ==
  /\ last.op = "write" /\ last.hit /\ Len(lru) = 2
  /\ last.sector \in buffer_cache

C9_EvictWritesBack ==
  (last.evicted # NoSector /\ last.evdirty) =>
    /\ last.evicted \in IoWrites(last.io)
    /\ device[last.evicted] = logical[last.evicted]

\* With C = 1: sector 0 was written, then a read of another sector evicted
\* it, and the device now holds the written bytes of sector 0.
C9_Witness ==
  /\ cache_size = 1 /\ last.op = "read" /\ last.evicted = 0 /\ last.evdirty
  /\ device[0] # InitialDevice[0]

\* Whether the rule of the slot state machine has sector s dirty
WrittenSinceLoad(s) == \E i \in DOMAIN ref : ref[i].sector = s /\ ref[i].dirty

\* C10 (slot state machine): a slot created by a read miss is clean, and a
\* slot's dirty flag is set only if the slot was written since it was
\* loaded, so that only such a slot is written back.
C10_SlotStateMachine ==
  /\ (last.op \in {"read", "read_partial"} /\ ~last.hit) => ~lru[1].dirty
  /\ \A i \in DOMAIN lru : lru[i].dirty => WrittenSinceLoad(lru[i].sector)

----------------------------------------------------------------------------
(* Properties of the inode layer *)

\* The open inode the last inode operation acted on
RetNode == open_inodes[OpenIndex(ret.sector)]

\* C3: round trip.  After write_at(i, B, n, off) with deny_write_cnt = 0 and
\* off + n <= MAX_FILE_SIZE, read_at(i, out, n, off) returns n bytes and
\* out = B, also when the write starts or ends beyond the file's length.
C3_RoundTrip ==
  (ret.op = "write_at" /\ ~halted /\ RetNode.deny_write_cnt = 0)
    => \A g \in BOOLEAN :
         LET r == inode_read_at(World(g), RetNode, ret.size, ret.offset)
         IN r.n = ret.size /\ r.buf = ret.src

\* C4: growth on write.  A write_at(i, src, n, off) with deny_write_cnt = 0
\* and off + n <= MAX_FILE_SIZE never decreases the length; when off + n
\* exceeds the length the call returns n and the length becomes >= off + n.
C4_GrowthOnWrite ==
  (ret.op = "write_at" /\ ~halted /\ RetNode.deny_write_cnt = 0)
    => /\ ret.new_length >= ret.old_length
       /\ ret.offset + ret.size > ret.old_length
            => ret.n = ret.size /\ ret.new_length >= ret.offset + ret.size

----------------------------------------------------------------------------
(* Properties of the open-inode table *)

\* The records of open_inodes for sector s
RecordsOf(s) == {i \in 1 .. Len(open_inodes) : open_inodes[i].sector = s}

\* C11: open-inode uniqueness.  The table holds at most one record per
\* sector, and an open of a sector that is already open adds no record and
\* increments the open_cnt of the existing one.
C11_OpenUnique ==
  /\ [](\A s \in FsSectors : Cardinality(RecordsOf(s)) <= 1)
  /\ [][(ret'.op = "open" /\ OpenIndex(ret'.sector) # 0)
          => /\ Len(open_inodes') = Len(open_inodes)
             /\ open_inodes' =
                  [open_inodes EXCEPT ![OpenIndex(ret'.sector)].open_cnt = @ + 1]
       ]_vars

C11_Witness ==
  /\ ret.op = "open"
  /\ ret.n # 0
  /\ open_inodes[OpenIndex(ret.sector)].open_cnt = 2

\* C12: open-count conservation.  open_cnt equals the opens and reopens
\* minus the closes made on the inode; its record is in the table exactly
\* while that number is positive, the close that brings it to 0 removing it.
C12_OpenCount ==
  \A s \in FsSectors :
    IF Openers(s) > 0
      THEN /\ Cardinality(RecordsOf(s)) = 1
           /\ \A i \in RecordsOf(s) : open_inodes[i].open_cnt = Openers(s)
      ELSE RecordsOf(s) = {}

C12_Witness ==
  /\ ret.op = "close"
  /\ ret.final
  /\ RecordsOf(ret.sector) = {}
  /\ Len(open_inodes) > 0

C14_DenyCount ==
  /\ ~halted
  /\ \A i \in 1 .. Len(open_inodes) :
       /\ 0 <= open_inodes[i].deny_write_cnt
       /\ open_inodes[i].deny_write_cnt <= open_inodes[i].open_cnt

\* C14 as the code keeps it: the bounds hold, and no assertion fails, as
\* long as no opener has closed the inode with its inode_deny_write still
\* outstanding.
C14_DenyCountLegal ==
  /\ halted => \E s \in FsSectors : files[s].leaked > 0
  /\ \A i \in 1 .. Len(open_inodes) :
       files[open_inodes[i].sector].leaked = 0
         => /\ 0 <= open_inodes[i].deny_write_cnt
            /\ open_inodes[i].deny_write_cnt <= open_inodes[i].open_cnt

C14_Witness ==
  /\ ret.op = "close"
  /\ ~ret.final
  /\ files[ret.sector].leaked = 0
  /\ \E i \in RecordsOf(ret.sector) :
       open_inodes[i].deny_write_cnt = 1 /\ open_inodes[i].open_cnt = 1

\* C15: remove then close releases the whole tree.  After the final close
\* of a removed inode, every sector allocated to the inode (data sectors,
\* indirect and double indirect blocks) and the inode's own sector are free.
C15_RemoveReleasesTree ==
  (ret.op = "close" /\ ret.final /\ ret.removed)
    => (ret.tree \cup {ret.sector}) \subseteq free_map

----------------------------------------------------------------------------
(* Properties of inode_create and of growth *)

\* C17: maximum size.  On a disk with enough free sectors, inode_create
\* succeeds for a length of MAX_FILE_SIZE and fails for every length above
\* it, MAX_FILE_SIZE + 1 included, storing nothing outside the index arrays.
C17_MaxSize ==
  (ret.op = "create" /\ ret.k = 1)
    => IF ret.size <= MAX_FILE_SIZE
         THEN ret.n = 1 /\ ~ret.smashed
         ELSE ret.n = 0 /\ ret.alloc = {}

\* C18: sparse growth zeros.  After a 1-byte write_at at an offset beyond
\* the old length, read_at over [old length, offset) returns that many zero
\* bytes and read_at at the offset returns the byte written.
C18_SparseZeros ==
  (ret.op = "write_at" /\ ~ret.denied /\ ~halted /\ ret.size = 1
     /\ ret.offset > ret.old_length)
    => \A g \in BOOLEAN :
         /\ inode_read_at(World(g), RetNode, ret.offset - ret.old_length,
                          ret.old_length).buf
              = [k \in 1 .. (ret.offset - ret.old_length) |-> 0]
         /\ inode_read_at(World(g), RetNode, 1, ret.offset).buf = ret.src

\* The last block a write reached and the blocks the file had before it
RetLastBlock == (ret.offset + ret.size - 1) \div BLOCK_SECTOR_SIZE

RetOldBlocks == bytes_to_sectors(ret.old_length)

\* C19: growth across index regions.  When a write grows the file past the
\* direct entries, the indirect block (and past the indirect entries, the
\* double indirect block) it comes to need is allocated by the write and
\* recorded in the inode, the grown offset maps to a data sector allocated
\* to this inode, the bytes written read back and the length covers them.
C19_GrowthAcrossRegions ==
  (ret.op = "write_at" /\ ~ret.denied /\ ~halted
     /\ ret.offset + ret.size > ret.old_length
     /\ RetLastBlock >= DIRECT_BLOCKS)
    => /\ RetOldBlocks <= DIRECT_BLOCKS
            => RetNode.data[D_indirect] \in ret.alloc
       /\ (RetLastBlock >= DIRECT_BLOCKS + INDIRECT_BLOCKS
             /\ RetOldBlocks <= DIRECT_BLOCKS + INDIRECT_BLOCKS)
            => RetNode.data[D_dbl_indirect] \in ret.alloc
       /\ inode_length(RetNode) = ret.offset + ret.size
       /\ \A g \in BOOLEAN :
            /\ get_inode_block(World(g), RetNode, ret.offset, TRUE).sector
                 \in files[ret.sector].owned
            /\ inode_read_at(World(g), RetNode, ret.size, ret.offset).buf
                 = ret.src

\* C20: in-range write.  With no deny outstanding and offset + size within
\* the length, write_at returns size, leaves the length as it was, allocates
\* no sector, and a read_at of the same range returns the bytes written.
C20_InRangeWrite ==
  (ret.op = "write_at" /\ ~ret.denied /\ ~halted
     /\ ret.offset + ret.size <= ret.old_length)
    => /\ ret.n = ret.size
       /\ ret.new_length = ret.old_length
       /\ ret.alloc = {}
       /\ \A g \in BOOLEAN :
            inode_read_at(World(g), RetNode, ret.size, ret.offset).buf
              = ret.src

----------------------------------------------------------------------------
(* Properties of inode_create, inode_read_at and of the cache's flush *)

\* The sector that backs block blk of the open inode node, looked up as a
\* read does
BlockSector(node, blk, g) ==
  get_inode_block(World(g), node, blk * BLOCK_SECTOR_SIZE, TRUE).sector

\* C21: create yields a zero-filled file.  After a successful
\* inode_create (s, L) and inode_open (s), the length is L, a read_at over
\* [0, L) returns L zero bytes, and every block below ceil(L / S) is backed
\* by a zero-filled data sector of its own that the create allocated.
C21_CreateZeroFilled ==
  (ret.op = "open" /\ ret.n = 0 /\ ~halted /\ ~files[ret.sector].written)
    => \A g \in BOOLEAN :
         /\ inode_length(RetNode) = files[ret.sector].size
         /\ inode_read_at(World(g), RetNode, files[ret.sector].size, 0).buf
              = [k \in 1 .. files[ret.sector].size |-> 0]
         /\ \A b1 \in 0 .. (bytes_to_sectors(files[ret.sector].size) - 1) :
              /\ BlockSector(RetNode, b1, g) \in files[ret.sector].owned
              /\ fs_read(World(g), BlockSector(RetNode, b1, g)).buf = zeros
              /\ \A b2 \in 0 .. (b1 - 1) :
                   BlockSector(RetNode, b2, g) # BlockSector(RetNode, b1, g)

\* The sectors a file of `length` bytes needs besides the inode's own: its
\* data sectors, the indirect block, the double indirect block and the
\* indirect blocks below it
SectorsNeeded(length) ==
  LET al == sector_allocation(bytes_to_sectors(length))
  IN bytes_to_sectors(length)
       + (IF al.indirect # 0 THEN 1 ELSE 0)
       + (IF al.dbl # 0 \/ al.remain # 0
            THEN 1 + al.dbl + (IF al.remain # 0 THEN 1 ELSE 0)
            ELSE 0)

\* C22: create reports out-of-space.  inode_create returns success only if
\* the free map supplied every sector the file needs, and the inode it wrote
\* has every direct entry in use referring to a sector the call allocated.
C22_CreateOutOfSpace ==
  (ret.op = "create" /\ ret.n = 1 /\ ~halted /\ ret.size <= MAX_FILE_SIZE)
    => /\ Cardinality(ret.alloc) = SectorsNeeded(ret.size)
       /\ \A g \in BOOLEAN :
            \A b \in 0 .. (MIN(bytes_to_sectors(ret.size), DIRECT_BLOCKS) - 1) :
              fs_read(World(g), ret.sector).buf[D_blocks(b)] \in ret.alloc

\* C23: create is atomic on failure.  When inode_create returns failure,
\* no sector it took from the free map is still taken: the free map is as it
\* was before the call.
C23_CreateAtomic ==
  (ret.op = "create" /\ ret.n = 0 /\ ~halted) => ret.alloc = {}

\* What a read of sector s through the cache returns: the resident slot's
\* buffer, or the device's sector
Content(s) ==
  IF cache_lookup(CacheState, s) # 0
    THEN lru[cache_lookup(CacheState, s)].data
    ELSE device[s]

\* C24: read_at.  inode_read_at (inode, dst, len, off) returns
\* min(len, max(0, length - off)) bytes, none when off >= length, and never
\* extends: the inode's record, the content of every sector (index blocks
\* included) and the free map are as before the call.
C24_ReadAt ==
  [][(ret'.op = "read_at" /\ ret'.k # ret.k)
       => /\ ~halted'
          /\ ret'.n = MIN(ret'.size,
                          IF ret'.old_length - ret'.offset > 0
                            THEN ret'.old_length - ret'.offset ELSE 0)
          /\ Len(ret'.buf) = ret'.n
          /\ ret'.offset >= ret'.old_length => ret'.n = 0
          /\ open_inodes' = open_inodes
          /\ free_map' = free_map
          /\ \A s \in DOMAIN device : Content(s)' = Content(s)
    ]_vars

\* C25: a partial write preserves the untouched bytes.
\* block_cache_write_partial (s, src, ofs, len) with ofs + len <= S makes
\* bytes [ofs, ofs + len) of sector s equal to src and leaves every other
\* byte of s, and every other sector, as it read before; the sector is read
\* first unless ofs = 0 and len = S.
C25_PartialWrite ==
  [][last'.op = "write_partial"
       => /\ \A s \in Sectors :
               Content(s)' =
                 IF s = last'.sector
                   THEN [i \in 1 .. BLOCK_SECTOR_SIZE |->
                           IF i > last'.ofs /\ i <= last'.ofs + Len(last'.src)
                             THEN last'.src[i - last'.ofs]
                             ELSE Content(s)[i]]
                   ELSE Content(s)
          /\ (last'.ofs = 0 /\ Len(last'.src) = BLOCK_SECTOR_SIZE)
               => last'.sector \notin IoReads(last'.io)
          /\ (~(last'.ofs = 0 /\ Len(last'.src) = BLOCK_SECTOR_SIZE)
                /\ last'.sector \notin Resident)
               => last'.sector \in IoReads(last'.io)
    ]_vars

\* A partial write to a sector that was not resident kept a byte that only
\* the device held
C25_Witness ==
  /\ last.op = "write_partial"
  /\ ~last.hit
  /\ last.ofs = 1
  /\ last.sector \in IoReads(last.io)
  /\ Content(last.sector)[1] = 1
  /\ \A i \in 2 .. BLOCK_SECTOR_SIZE : Content(last.sector)[i] = 0

\* C26: idempotent flush.  A flush that follows a flush issues no device
\* write and changes neither the cache nor the device, so two flushes leave
\* the state one flush leaves.
C26_IdempotentFlush ==
  [][(last.op = "flush" /\ last'.op = "flush")
       => /\ last'.io = <<>>
          /\ UNCHANGED <<device, lru, buffer_cache, entries_in_cache>>
    ]_vars

\* A second flush has run after one that wrote two sectors back
C26_Witness ==
  /\ last.op = "flush"
  /\ last.again
  /\ last.io = <<>>
  /\ lru = <<>>
  /\ Cardinality({s \in Sectors : device[s] # InitialDevice[s]}) >= 2

\* The sectors whose last completed write is not on the device
Unwritten == {s \in Sectors : device[s] # logical[s]}

\* C27: periodic flush.  The timer triggers a flush only when
\* THIRTY_SECONDS ticks have elapsed since init or the last one; that flush
\* writes every dirty entry back, empties the cache and resets the
\* timestamp; and every completed write eventually reaches the device, also
\* when nothing is evicted (stated for the writes after which the timer
\* still runs for a full period).
C27_PeriodicFlush ==
  /\ [][time' # time
          => /\ timer_elapsed(ticks, time) >= THIRTY_SECONDS
             /\ time' = ticks
             /\ Unwritten \subseteq IoWrites(last'.io)
             /\ Len(lru') = 1
       ]_vars
  /\ \A s \in Sectors :
       (s \in Unwritten /\ ticks + THIRTY_SECONDS <= MaxTicks)
         ~> (s \notin Unwritten)

\* C28: concurrent misses are serialized.  With two threads in the cache
\* and a thread switch at each device read or write, no access meets an
\* entry in the middle of its eviction, no sector ever has two entries, and
\* between operations the hash, the lru list and entries_in_cache agree.
C28_ConcurrentMisses ==
  /\ \A t \in Threads : threads[t].pc # "undefined"
  /\ \A i, j \in 1 .. Len(lru) : i # j => lru[i].sector # lru[j].sector
  /\ (\A t \in Threads : threads[t].pc = "idle")
       => /\ Resident = buffer_cache
          /\ entries_in_cache = Len(lru)
          /\ entries_in_cache = Cardinality(buffer_cache)

\* C29: device read failure.  When the device read of a read miss fails,
\* block_cache_read returns an error and inserts no entry: the hash, the lru
\* list and entries_in_cache are as before the call.
C29_ReadFailure ==
  [][last'.op = "read_fail"
       => /\ ~halted'
          /\ last'.rc # SUCCESS
          /\ UNCHANGED <<lru, buffer_cache, entries_in_cache>>
    ]_vars

\* C30: cache buffers are always released.  The sector buffers allocated and
\* not freed are exactly those of the entries on the lru list, whether the
\* entries evicted were clean or dirty, and none is left after a flush.
C30_BuffersReleased ==
  /\ heap = Len(lru)
  /\ last.op = "flush" => heap = 0

\* C31: sector budget.  For a target of s sectors sector_allocation returns
\* direct = min(s, DIRECT_BLOCKS), indirect = min(s - direct,
\* INDIRECT_BLOCKS), dbl = min(rest / INDIRECT_BLOCKS, DBL_INDIRECT_BLOCKS)
\* and remain = (rest - INDIRECT_BLOCKS * dbl) % INDIRECT_BLOCKS; it fails
\* exactly when sectors are left over after this peeling, and on success
\* the four parts add up to s.
C31_SectorBudget ==
  calc.fn = "sector_allocation" =>
    LET s        == calc.arg
        r        == calc.out
        direct   == IF s <= DIRECT_BLOCKS THEN s ELSE DIRECT_BLOCKS
        indirect == IF s - direct <= INDIRECT_BLOCKS
                      THEN s - direct ELSE INDIRECT_BLOCKS
        rest     == s - direct - indirect
        dbl      == IF rest \div INDIRECT_BLOCKS <= DBL_INDIRECT_BLOCKS
                      THEN rest \div INDIRECT_BLOCKS ELSE DBL_INDIRECT_BLOCKS
        remain   == (rest - INDIRECT_BLOCKS * dbl) % INDIRECT_BLOCKS
        left     == rest - INDIRECT_BLOCKS * dbl - remain
    IN /\ r.direct = direct
       /\ r.indirect = indirect
       /\ r.dbl = dbl
       /\ r.remain = remain
       /\ r.ok <=> left = 0
       /\ r.ok => r.direct + r.indirect + INDIRECT_BLOCKS * r.dbl + r.remain = s

\* A budget with full second-level blocks and a partly used trailing one
C31_Witness ==
  /\ calc.fn = "sector_allocation"
  /\ calc.out.ok
  /\ calc.out.dbl > 0
  /\ calc.out.remain > 0

\* The index entry that block b of the open inode node is to be found at:
\* direct, in the indirect block, or in an indirect block below the double
\* indirect block
MappedEntry(node, b, g) ==
  IF b < DIRECT_BLOCKS
    THEN node.data[D_blocks(b)]
    ELSE IF b < DIRECT_BLOCKS + INDIRECT_BLOCKS
      THEN fs_read(World(g), node.data[D_indirect]).buf[
             I_blocks(b - DIRECT_BLOCKS)]
      ELSE fs_read(World(g),
                   fs_read(World(g), node.data[D_dbl_indirect]).buf[
                     I_blocks((b - DIRECT_BLOCKS - INDIRECT_BLOCKS)
                                \div INDIRECT_BLOCKS)]).buf[
             I_blocks((b - DIRECT_BLOCKS - INDIRECT_BLOCKS)
                        % INDIRECT_BLOCKS)]

\* C32: offset-to-sector mapping.  For an open file created with length L
\* and every block b < ceil(L / S), get_inode_block returns direct[b], the
\* entry b - DIRECT_BLOCKS of the indirect block, or the entry k %
\* INDIRECT_BLOCKS of indirect block k / INDIRECT_BLOCKS below the double
\* indirect block; distinct blocks get distinct sectors, each one a data
\* sector allocated to this inode.
C32_OffsetMapping ==
  (ret.op = "open" /\ ret.n = 0 /\ ~halted /\ ~files[ret.sector].written)
    => \A g \in BOOLEAN :
         \A b1 \in 0 .. (bytes_to_sectors(files[ret.sector].size) - 1) :
           /\ BlockSector(RetNode, b1, g) = MappedEntry(RetNode, b1, g)
           /\ BlockSector(RetNode, b1, g) \in files[ret.sector].owned
           /\ BlockSector(RetNode, b1, g) # ret.sector
           /\ \A b2 \in 0 .. (bytes_to_sectors(files[ret.sector].size) - 1) :
                b1 # b2 =>
                  BlockSector(RetNode, b1, g) # BlockSector(RetNode, b2, g)

\* C33: membership consistency.  After every completed cache operation the
\* sectors in the hash are exactly the sectors on the lru list, and
\* entries_in_cache is the number of them.
C33_Membership ==
  /\ buffer_cache = Resident
  /\ entries_in_cache = Cardinality(buffer_cache)
  /\ entries_in_cache = Len(lru)

\* A read that missed with the cache at capacity 2: one entry went out of
\* the list and the hash, the new one came in
C33_Witness ==
  /\ last.op = "read" /\ ~last.hit /\ last.evicted # NoSector
  /\ cache_size = 2
  /\ buffer_cache = Resident /\ entries_in_cache = 2
  /\ last.sector \in buffer_cache /\ last.evicted \notin buffer_cache

\* C34: release only what is owned.  The final close of a removed inode
\* releases no sector other than those of the inode (data sectors, index
\* blocks, the inode's own sector), and none that is already free.
C34_ReleaseOwned ==
  [][(ret'.op = "close" /\ ret'.final /\ ret'.removed /\ ret'.t # ret.t)
       => /\ (free_map' \ free_map) \subseteq (ret'.tree \cup {ret'.sector})
          /\ ret'.released \subseteq (ret'.tree \cup {ret'.sector})
          /\ ret'.released \cap free_map = {}
    ]_vars

\* The indices, in struct inode_disk, of the entries of blocks[]
DirectSlots == {D_blocks(b) : b \in 0 .. (DIRECT_BLOCKS - 1)}

\* C35: index stores stay in bounds.  A sector id stored by inode_create or
\* by the growth of a write lands inside its array and in an entry that is
\* not in use: no store falls outside the object, and a write changes no
\* field of the open inode other than entries of blocks[] that were 0, nor
\* the header or an entry in use of its indirect block.
C35_StoresInBounds ==
  [][/\ (ret'.op \in {"create", "write_at"} /\ ret'.k # ret.k)
          => ~ret'.smashed
     /\ (ret'.op = "write_at" /\ ret'.k # ret.k /\ ~halted')
          => \A i \in 1 .. Len(open_inodes) :
               /\ \A k \in DOMAIN open_inodes[i].data :
                    (k \notin DirectSlots \/ open_inodes[i].data[k] # 0)
                      => open_inodes'[i].data[k] = open_inodes[i].data[k]
               /\ \A s \in FsSectors :
                    s = open_inodes[i].data[D_indirect] /\ s # 0
                      => \A k \in 1 .. BLOCK_SECTOR_SIZE :
                           (k < I_blocks(0) \/ Content(s)[k] # 0)
                             => Content(s)'[k] = Content(s)[k]
    ]_vars

\* C36: the in-memory and the on-disk inode agree.  After every completed
\* inode_write_at, the inode read through the cache from the inode's sector
\* equals the copy held by the open inode (so that what growth changed is
\* there for an open that follows the final close).
C36_InodeWrittenBack ==
  (ret.op = "write_at" /\ ~halted /\ OpenIndex(ret.sector) # 0)
    => Content(ret.sector) = RetNode.data

====
